---- MODULE Spec2Model ----
(***************************************************************************)
(* A model of two subsystems of iroh:                                      *)
(*   - the download scheduler state machine                                *)
(*     (iroh/src/downloader/state.rs), and                                 *)
(*   - the on-disk replica store (iroh-sync/src/store/fs.rs).              *)
(* Each subsystem has its own specification; the variables of the other    *)
(* subsystem stay at their initial value.                                  *)
(***************************************************************************)
EXTENDS Integers, Sequences, FiniteSets, TLC

\* ------------------------------------------------------------------ bounds

NumNodes == 2
NumResources == 2
NumGroups == 1
MaxTransfers == 2
MaxRequests == 2
MaxPerNode == 2
MaxConnections == 2
MaxPendingTimers == 2
MaxEvents == 4
MaxDrivenEvents == 5
MaxDeepEvents == 6
MaxLiveResources == 2
MaxLiveEvents == 12
MaxHints == 1
NumNamespaces == 2
NumAuthors == 2
MaxKeyLen == 1
MaxTimestamp == 2
MaxStoreOps == 3
MaxLifecycleOps == 5
NumThreads == 2
NumPeers == 3
MaxNanos == 3
MaxLruNanos == 5
\* PEERS_PER_DOC_CACHE_SIZE is 5 in the program; the peers and the capacity are
\* scaled down together.
PEERS_PER_DOC_CACHE_SIZE == 2
MaxQueryPuts == 2
MaxRangeOps == 4
MaxSnapshotOps == 3
MaxPrefixKeyLen == 2
MaxPrefixOps == 4
MaxPrefixQueryOps == 4
MaxMigrationOps == 4
MaxOffset == 1
MaxLimit == 1

NodeIds == 1..NumNodes
ResourceIds == 1..NumResources
GroupIds == 1..NumGroups
TransferIds == 0..(MaxTransfers - 1)

\* super::INITIAL_RETRY_COUNT (u8) and the two timer durations.
INITIAL_RETRY_COUNT == 4
IDLE_PEER_TIMEOUT == "IDLE_PEER_TIMEOUT"
RetryDelay == "1s"

\* ------------------------------------------------------------------ helpers

Min(a, b) == IF a <= b THEN a ELSE b

\* BTreeMap::insert / entry().or_insert on a map modelled as a function.
Put(f, k, v) == (k :> v) @@ f

\* BTreeMap::remove.
Del(f, k) == [x \in (DOMAIN f) \ {k} |-> f[x]] @@ <<>>

\* The sequences of length k over S without repetition.
Orders(S, k) == {q \in [1..k -> S] : \A i, j \in 1..k : q[i] = q[j] => i = j}

\* The sequences over S, without repetition, of any length.
Perms(S) == UNION {Orders(S, k) : k \in 0..Cardinality(S)}

Elems(q) == {q[i] : i \in DOMAIN q}

\* ------------------------------------------------------------------ state

VARIABLES
    \* downloader::state::State
    groups,             \* BTreeMap<Group, GroupState>
    resources,          \* BTreeMap<Resource, ResourceState>
    nodes,              \* BTreeMap<NodeId, NodeInfo>
    limits,             \* ConcurrencyLimits
    active_transfers,   \* BTreeMap<TransferId, Transfer>
    transfer_id,        \* IdGenerator<TransferId>: the next id
    actions,            \* Vec<OutEvent> produced by the last handle() call
    events,             \* the number of InEvents handled so far
    \* the scheduler's collaborators (transport and timer service)
    dialing,            \* nodes with a StartDial that was not answered yet
    timers,             \* registered timers that did not fire yet (timer -> count)
    failures            \* node -> the transient failures reported for it so far

VARIABLES
    \* store::fs::Store (the tables of the database and the open set)
    records_table,      \* RECORDS_TABLE: (namespace, author, key) -> value
    by_key_table,       \* RECORDS_BY_KEY_TABLE: the set of (namespace, key, author)
    latest_table,       \* LATEST_TABLE: (namespace, author) -> (timestamp, key)
    namespaces_table,   \* NAMESPACES_TABLE: the namespace ids with a row
    open_replicas,      \* Store.open_replicas
    \* the caller of the store
    last_op,            \* the last operation of the store and what it returned
    last_put,           \* (namespace, author) -> the entry of the author's last put
    store_ops,          \* the number of operations so far
    handles,            \* namespace -> the Replica handles not yet closed
    threads,            \* the threads that share the store: where each is
    query_iter,         \* the QueryIterator of a get_many, once there is one
    yielded,            \* the entries it has yielded so far
    peers_table,        \* NAMESPACE_PEERS_TABLE: namespace -> the set of (nanos, peer)
    registered,         \* namespace -> the (nanos, peer) registered under a rising clock
    range_reader        \* a get_range call of a split range between its two iterators

storeVars == <<records_table, by_key_table, latest_table, namespaces_table, open_replicas,
               last_op, last_put, store_ops, handles, threads, query_iter, yielded,
               peers_table, registered, range_reader>>
queryVars == <<query_iter, yielded>>
peerVars == <<peers_table, registered>>
readerVars == <<range_reader>>

schedVars == <<groups, resources, nodes, limits, active_transfers, transfer_id, actions,
               events>>
driverVars == <<dialing, timers, failures>>

vars == <<groups, resources, nodes, limits, active_transfers, transfer_id, actions,
          events, dialing, timers, failures,
          records_table, by_key_table, latest_table, namespaces_table, open_replicas,
          last_op, last_put, store_ops, handles, threads, query_iter, yielded,
          peers_table, registered, range_reader>>

\* ---------------------------------------------------------- ConcurrencyLimits

at_requests_capacity(active_requests) ==
    active_requests >= limits.max_concurrent_requests

\* Option<NonZeroUsize>: 0 stands for None.
node_remaining_requests(active_requests) ==
    IF limits.max_concurrent_requests_per_node > active_requests
    THEN limits.max_concurrent_requests_per_node - active_requests
    ELSE 0

node_at_request_capacity(active_node_requests) ==
    active_node_requests >= limits.max_concurrent_requests_per_node

limits_at_connections_capacity(active_connections) ==
    active_connections >= limits.max_open_connections

\* Option<NonZeroUsize>: 0 stands for None.
remaining_connections(active_connections) ==
    IF limits.max_open_connections > active_connections
    THEN limits.max_open_connections - active_connections
    ELSE 0

\* ---------------------------------------------------------- NodeState, NodeInfo

Disconnected(failed) == [kind |-> "Disconnected", failed |-> failed, remaining_retries |-> 0]
Pending(state, remaining_retries) ==
    [kind |-> state, failed |-> FALSE, remaining_retries |-> remaining_retries]
Connected == [kind |-> "Connected", failed |-> FALSE, remaining_retries |-> 0]

is_pending(state) == state.kind \in {"Connecting", "RetryTimeout"}

is_active(state) == state.kind \in {"Connected", "Connecting"}

\* may_connect that lets a failed node connect again.
may_connect_failed(state) == state.kind = "Disconnected"

may_connect(state) == state.kind = "Disconnected" /\ ~state.failed

connecting == Pending("Connecting", INITIAL_RETRY_COUNT)

\* NodeInfo::default()
DefaultNodeInfo ==
    [groups |-> {}, resources |-> {}, active_transfers |-> {},
     state |-> Disconnected(FALSE), in_disconnect_timeout |-> FALSE]

\* u8 arithmetic: the subtraction wraps in a release build.
remaining_retries(node_info) ==
    IF is_pending(node_info.state)
    THEN (node_info.state.remaining_retries - 1) % 256
    ELSE INITIAL_RETRY_COUNT

should_reconnect(node_info) == remaining_retries(node_info) > 0

\* is_connected that takes every node for connected.
is_connected_always(node_info) == TRUE

is_connected(node_info) == node_info.state.kind = "Connected"

\* ---------------------------------------------------------- ResourceState

\* ResourceState::default(); active_transfer is an Option, modelled as a set
\* with at most one element.
DefaultResourceState ==
    [groups |-> {}, nodes |-> {}, skip_nodes |-> {}, active_transfer |-> {}]

DefaultGroupState == [resources |-> {}, nodes |-> {}]

is_transfering(resource_state) == resource_state.active_transfer # {}

\* can_start_transfer without the check for a running transfer.
can_start_transfer_ignoring_active(resource_state, node) ==
    node \notin resource_state.skip_nodes

\* can_start_transfer without the check of skip_nodes.
can_start_transfer_ignoring_skip(resource_state, node) ==
    ~is_transfering(resource_state)

can_start_transfer(resource_state, node) ==
    ~is_transfering(resource_state) /\ node \notin resource_state.skip_nodes

\* ---------------------------------------------------------- events

StartTransfer(id, resource, node) ==
    [type |-> "StartTransfer", id |-> id, resource |-> resource, node |-> node]
StartDial(node) == [type |-> "StartDial", node |-> node]
DropConnection(node) == [type |-> "DropConnection", node |-> node]
RegisterTimer(duration, timer) ==
    [type |-> "RegisterTimer", duration |-> duration, timer |-> timer]

TimerRetryNode(node) == [kind |-> "RetryNode", node |-> node]
TimerDropConnection(node) == [kind |-> "DropConnection", node |-> node]
Timers == {TimerRetryNode(n) : n \in NodeIds} \cup {TimerDropConnection(n) : n \in NodeIds}

FailureActions == {"NotFound", "AbortRequest", "DropPeer", "RetryLater"}

\* ---------------------------------------------------------- free functions

\* resource_iter / node_resource_iter: the resources of the node and the
\* resources of its groups, restricted to the wanted resources.  The order
\* of the walk is that of IndexSet; the model keeps the set of candidates.
node_resource_iter(s, node_info) ==
    {r \in node_info.resources \cup
           UNION {s.groups[g].resources : g \in node_info.groups \cap DOMAIN s.groups} :
        r \in DOMAIN s.resources}

node_is_needed(s, node, node_info) ==
    \E r \in node_resource_iter(s, node_info) : can_start_transfer(s.resources[r], node)

node_should_connect(s, node, node_info) ==
    may_connect(node_info.state) /\ node_is_needed(s, node, node_info)

connection_count(s) == Cardinality({n \in DOMAIN s.nodes : is_active(s.nodes[n].state)})

\* at_connections_capacity that never reports the capacity as reached.
at_connections_capacity_never(s) == FALSE

at_connections_capacity(s) == limits_at_connections_capacity(connection_count(s))

\* ---------------------------------------------------------- State (handlers)
\* A handler is an operator from the state before to the set of states it
\* can end in (a HashSet is iterated in an unspecified order).  s is the
\* record of the fields of State.

Bind(S, F(_)) == UNION {F(s) : s \in S}

\* The candidate loop without its `break`: every startable candidate is taken.
next_resources_without_break(s, node, remaining) ==
    {{r \in node_resource_iter(s, s.nodes[node]) :
         can_start_transfer(s.resources[r], node)}}

\* node_fill_transfers, the candidate loop: the resources a HashSet holds
\* when the loop ends, for every order of the walk.
next_resources(s, node, remaining) ==
    LET startable == {r \in node_resource_iter(s, s.nodes[node]) :
                         can_start_transfer(s.resources[r], node)}
    IN {S \in SUBSET startable : Cardinality(S) = Min(remaining, Cardinality(startable))}

\* The loop without the entry in the node's own set of transfers.
RECURSIVE start_transfers_untracked(_, _, _)
start_transfers_untracked(s, node, order) ==
    IF order = <<>> THEN s
    ELSE LET resource == Head(order)
             id == s.transfer_id
             s1 == [s EXCEPT
                      !.transfer_id = id + 1,
                      !.actions = Append(@, StartTransfer(id, resource, node)),
                      !.active_transfers =
                          Put(@, id, [id |-> id, resource |-> resource, node |-> node]),
                      !.resources[resource].active_transfer = {id}]
         IN start_transfers_untracked(s1, node, Tail(order))

\* node_fill_transfers, the loop that starts the transfers.
RECURSIVE start_transfers(_, _, _)
start_transfers(s, node, order) ==
    IF order = <<>> THEN s
    ELSE LET resource == Head(order)
             id == s.transfer_id
             s1 == [s EXCEPT
                      !.transfer_id = id + 1,
                      !.actions = Append(@, StartTransfer(id, resource, node)),
                      !.active_transfers =
                          Put(@, id, [id |-> id, resource |-> resource, node |-> node]),
                      !.nodes[node].active_transfers = @ \cup {id},
                      !.resources[resource].active_transfer = {id}]
         IN start_transfers(s1, node, Tail(order))

\* node_fill_transfers, the idle-timeout bookkeeping at its end.
fill_disconnect_timeout(s, node) ==
    IF s.nodes[node].active_transfers = {} /\ ~s.nodes[node].in_disconnect_timeout
    THEN [s EXCEPT
            !.actions = Append(@, RegisterTimer(IDLE_PEER_TIMEOUT, TimerDropConnection(node))),
            !.nodes[node].in_disconnect_timeout = TRUE]
    ELSE [s EXCEPT !.nodes[node].in_disconnect_timeout = FALSE]

node_fill_transfers(s, node) ==
    IF node \notin DOMAIN s.nodes THEN {s}
    ELSE LET node_info == s.nodes[node] IN
         IF \/ ~is_connected(node_info)
            \/ node_at_request_capacity(Cardinality(node_info.active_transfers))
            \/ at_requests_capacity(Cardinality(DOMAIN s.active_transfers))
         THEN {s}
         ELSE LET remaining ==
                      node_remaining_requests(Cardinality(node_info.active_transfers))
                  started ==
                      IF remaining > 0
                      THEN {start_transfers(s, node, order) :
                               order \in UNION {Orders(S, Cardinality(S)) :
                                                   S \in next_resources(s, node, remaining)}}
                      ELSE {s}
              IN {fill_disconnect_timeout(s1, node) : s1 \in started}

\* add_node, the two loops over the hints.
RECURSIVE add_node_groups(_, _, _)
add_node_groups(s, node, hint_groups) ==
    IF hint_groups = {} THEN s
    ELSE LET group == CHOOSE g \in hint_groups : TRUE
             s1 == IF group \notin s.nodes[node].groups
                   THEN LET group_state == IF group \in DOMAIN s.groups
                                           THEN s.groups[group] ELSE DefaultGroupState
                        IN [s EXCEPT
                              !.nodes[node].groups = @ \cup {group},
                              !.groups = Put(@, group,
                                  [group_state EXCEPT !.nodes = @ \cup {node}])]
                   ELSE s
         IN add_node_groups(s1, node, hint_groups \ {group})

RECURSIVE add_node_resources(_, _, _)
add_node_resources(s, node, hint_resources) ==
    IF hint_resources = {} THEN s
    ELSE LET resource == CHOOSE r \in hint_resources : TRUE
             s1 == IF resource \notin s.nodes[node].resources
                   THEN LET s0 == [s EXCEPT !.nodes[node].resources = @ \cup {resource}]
                        IN IF resource \in DOMAIN s.resources
                           THEN [s0 EXCEPT
                                   !.resources[resource].nodes = @ \cup {node},
                                   !.resources[resource].skip_nodes = @ \ {node}]
                           ELSE s0
                   ELSE s
         IN add_node_resources(s1, node, hint_resources \ {resource})

\* NodeInfo::connect pushed onto the actions.
connect(s, node) ==
    [s EXCEPT !.nodes[node].state = connecting,
              !.actions = Append(@, StartDial(node))]

add_node(s, node, hints) ==
    LET capacity == at_connections_capacity(s)
        s0 == IF node \in DOMAIN s.nodes THEN s
              ELSE [s EXCEPT !.nodes = Put(@, node, DefaultNodeInfo)]
        s1 == add_node_groups(s0, node, hints.groups)
        s2 == add_node_resources(s1, node, hints.resources)
        node_info == s2.nodes[node]
    IN CASE is_pending(node_info.state) -> {s2}
         [] node_info.state.kind = "Connected" -> node_fill_transfers(s2, node)
         [] OTHER ->
              IF ~capacity /\ node_should_connect(s2, node, node_info)
              THEN {connect(s2, node)}
              ELSE {s2}

\* add_resource, the loop over hints.groups.
RECURSIVE add_resource_groups(_, _, _)
add_resource_groups(s, resource, hint_groups) ==
    IF hint_groups = {} THEN s
    ELSE LET group == CHOOSE g \in hint_groups : TRUE
             s1 == IF group \notin s.resources[resource].groups
                   THEN LET group_state == IF group \in DOMAIN s.groups
                                           THEN s.groups[group] ELSE DefaultGroupState
                        IN [s EXCEPT
                              !.resources[resource].groups = @ \cup {group},
                              !.groups = Put(@, group,
                                  [group_state EXCEPT !.resources = @ \cup {resource}])]
                   ELSE s
         IN add_resource_groups(s1, resource, hint_groups \ {group})

\* add_resource, the loop over hints.nodes (a Vec: in order).
RECURSIVE add_resource_nodes(_, _, _)
add_resource_nodes(S, resource, hint_nodes) ==
    IF hint_nodes = <<>> THEN S
    ELSE LET node == Head(hint_nodes)
             step(s) == add_node(s, node, [resources |-> {resource}, groups |-> {}])
         IN add_resource_nodes(Bind(S, step), resource, Tail(hint_nodes))

add_resource(s, resource, hints) ==
    LET s0 == IF resource \in DOMAIN s.resources THEN s
              ELSE [s EXCEPT !.resources = Put(@, resource, DefaultResourceState)]
        s1 == [s0 EXCEPT !.resources[resource].skip_nodes = @ \cup hints.skip_nodes]
        s2 == add_resource_groups(s1, resource, hints.groups)
    IN add_resource_nodes({s2}, resource, hints.nodes)

on_node_connected(s, node) ==
    IF node \notin DOMAIN s.nodes THEN {s}
    ELSE node_fill_transfers([s EXCEPT !.nodes[node].state = Connected], node)

\* on_node_failed, the branch that decides the node's next state.
node_failed_state(s, node, may_reconnect) ==
    LET node_info == s.nodes[node] IN
    IF may_reconnect /\ ~should_reconnect(node_info)
    THEN [s EXCEPT
            !.actions = Append(@, RegisterTimer(RetryDelay, TimerRetryNode(node))),
            !.nodes[node].state = Pending("RetryTimeout", remaining_retries(node_info))]
    ELSE LET removed_resources == node_info.resources IN
         [s EXCEPT
            !.actions = Append(@, DropConnection(node)),
            !.nodes[node].resources = {},
            !.nodes[node].state = Disconnected(TRUE),
            !.resources = [r \in DOMAIN s.resources |->
                              IF r \in removed_resources
                              THEN [s.resources[r] EXCEPT !.nodes = @ \ {node}]
                              ELSE s.resources[r]] @@ <<>>]

\* on_node_failed, "queue reconnects": the first `remaining` nodes, in the
\* order of the BTreeMap, that should connect.
RECURSIVE connect_all(_, _)
connect_all(s, todo) ==
    IF todo = {} THEN s
    ELSE LET node == CHOOSE n \in todo : \A m \in todo : n <= m
         IN connect_all(connect(s, node), todo \ {node})

queue_reconnects(s) ==
    LET remaining == remaining_connections(connection_count(s))
        wanted == {n \in DOMAIN s.nodes : node_should_connect(s, n, s.nodes[n])}
        taken == {n \in wanted : Cardinality({m \in wanted : m < n}) < remaining}
    IN IF remaining > 0 THEN connect_all(s, taken) ELSE s

on_node_failed(s, node, may_reconnect) ==
    IF node \notin DOMAIN s.nodes THEN {s}
    ELSE {queue_reconnects(node_failed_state(s, node, may_reconnect))}

\* on_transfer_ready that keeps the resource among the wanted ones.
remove_resource_skipped(s, resource) == s

\* on_transfer_ready, the removal of the resource and of its back-references.
remove_resource(s, resource) ==
    IF resource \notin DOMAIN s.resources THEN s
    ELSE LET resource_state == s.resources[resource] IN
         [s EXCEPT
            !.resources = Del(@, resource),
            !.nodes = [n \in DOMAIN s.nodes |->
                          IF n \in resource_state.nodes
                          THEN [s.nodes[n] EXCEPT !.resources = @ \ {resource}]
                          ELSE s.nodes[n]] @@ <<>>,
            !.groups = [g \in DOMAIN s.groups |->
                           IF g \in resource_state.groups
                           THEN [s.groups[g] EXCEPT !.resources = @ \ {resource}]
                           ELSE s.groups[g]] @@ <<>>]

on_transfer_ready(s, id) ==
    IF id \notin DOMAIN s.active_transfers THEN {s}
    ELSE LET transfer == s.active_transfers[id]
             s1 == [s EXCEPT !.active_transfers = Del(@, id)]
             s2 == remove_resource(s1, transfer.resource)
         IN IF transfer.node \in DOMAIN s2.nodes
            THEN node_fill_transfers(
                     [s2 EXCEPT !.nodes[transfer.node].active_transfers = @ \ {id}],
                     transfer.node)
            ELSE {s2}

on_transfer_failed(s, id, action) ==
    IF id \notin DOMAIN s.active_transfers THEN {s}
    ELSE LET transfer == s.active_transfers[id]
             resource == transfer.resource
             node == transfer.node
             s1 == [s EXCEPT !.active_transfers = Del(@, id)]
             resource_state == IF resource \in DOMAIN s1.resources
                               THEN s1.resources[resource] ELSE DefaultResourceState
             s2 == [s1 EXCEPT !.resources = Put(@, resource,
                       [resource_state EXCEPT !.skip_nodes = @ \cup {node},
                                              !.active_transfer = {}])]
         IN IF node \in DOMAIN s2.nodes
            THEN LET s3 == [s2 EXCEPT !.nodes[node].active_transfers = @ \ {id}]
                 IN CASE action \in {"NotFound", "AbortRequest"} ->
                             node_fill_transfers(s3, node)
                      [] action = "DropPeer" -> on_node_failed(s3, node, FALSE)
                      [] action = "RetryLater" -> on_node_failed(s3, node, TRUE)
            ELSE {s2}

\* on_timer that drops an idle node whether it is marked or not.
on_timer_unmarked(s, timer) ==
    IF timer.node \notin DOMAIN s.nodes THEN {s}
    ELSE IF timer.kind = "RetryNode"
    THEN {connect(s, timer.node)}
    ELSE IF s.nodes[timer.node].active_transfers = {}
         THEN {[s EXCEPT !.nodes[timer.node].in_disconnect_timeout = FALSE,
                         !.nodes[timer.node].state = Disconnected(FALSE),
                         !.actions = Append(@, DropConnection(timer.node))]}
         ELSE {s}

\* on_timer that dials the node of the timer whether it knows it or not.
on_timer_unchecked(s, timer) == {[s EXCEPT !.actions = Append(@, StartDial(timer.node))]}

on_timer(s, timer) ==
    IF timer.node \notin DOMAIN s.nodes THEN {s}
    ELSE IF timer.kind = "RetryNode"
    THEN {connect(s, timer.node)}
    ELSE LET state == s.nodes[timer.node] IN
         IF state.in_disconnect_timeout
         THEN LET s1 == [s EXCEPT !.nodes[timer.node].in_disconnect_timeout = FALSE]
              IN IF state.active_transfers = {}
                 THEN {[s1 EXCEPT !.nodes[timer.node].state = Disconnected(FALSE),
                                  !.actions = Append(@, DropConnection(timer.node))]}
                 ELSE {s1}
         ELSE {s}

\* ================================================================ the store
\* iroh-sync/src/store/fs.rs

NamespaceIds == 1..NumNamespaces
AuthorIds == 1..NumAuthors
ByteVals == {0, 255}
Keys == UNION {[1..n -> ByteVals] : n \in 0..MaxKeyLen}
Timestamps == 1..MaxTimestamp
EMPTY_HASH == "EMPTY"
Hashes == {EMPTY_HASH, "h1"}
None == [none |-> TRUE]
ThreadIds == 1..NumThreads

\* Byte strings compare lexicographically, as redb compares &[u8] keys.
IsPrefix(p, k) == Len(p) <= Len(k) /\ \A i \in 1..Len(p) : p[i] = k[i]
KeyLess(a, b) ==
    \E i \in 1..(Min(Len(a), Len(b)) + 1) :
        /\ \A j \in 1..(i - 1) : a[j] = b[j]
        /\ \/ i > Len(a) /\ i <= Len(b)
           \/ i <= Len(a) /\ i <= Len(b) /\ a[i] < b[i]

\* RecordsId = (namespace, author, key), RecordsByKeyId = (namespace, key, author);
\* tuples compare component by component.
RecordsIds == NamespaceIds \X AuthorIds \X Keys
RecordsIdLess(a, b) ==
    \/ a[1] < b[1]
    \/ a[1] = b[1] /\ a[2] < b[2]
    \/ a[1] = b[1] /\ a[2] = b[2] /\ KeyLess(a[3], b[3])
RecordsByKeyIdLess(a, b) ==
    \/ a[1] < b[1]
    \/ a[1] = b[1] /\ KeyLess(a[2], b[2])
    \/ a[1] = b[1] /\ a[2] = b[2] /\ a[3] < b[3]

\* The rows of a table with their keys in a bound, in key order.
RECURSIVE RecordsSorted(_)
RecordsSorted(ids) ==
    IF ids = {} THEN <<>>
    ELSE LET first == CHOOSE a \in ids : \A b \in ids \ {a} : RecordsIdLess(a, b)
         IN <<first>> \o RecordsSorted(ids \ {first})
RECURSIVE ByKeySorted(_)
ByKeySorted(ids) ==
    IF ids = {} THEN <<>>
    ELSE LET first == CHOOSE a \in ids : \A b \in ids \ {a} : RecordsByKeyIdLess(a, b)
         IN <<first>> \o ByKeySorted(ids \ {first})

\* The bounds of bounds.rs, by the rows they select.
RecordsBounds_namespace(ns, id) == id[1] = ns
ByKeyBounds_namespace(ns, id) == id[1] = ns
RecordsBounds_author_prefix(ns, author, prefix, id) ==
    id[1] = ns /\ id[2] = author /\ IsPrefix(prefix, id[3])

\* A SignedEntry: its id, its record and its two signatures.
Signature(who, id, timestamp, hash) == <<who, id, timestamp, hash>>
ContentLen(hash) == IF hash = EMPTY_HASH THEN 0 ELSE 1
SignedEntry(id, timestamp, hash) ==
    [id |-> id,
     record |-> [hash |-> hash, len |-> ContentLen(hash), timestamp |-> timestamp],
     signature |-> [namespace |-> Signature("namespace", id, timestamp, hash),
                    author |-> Signature("author", id, timestamp, hash)]]
SignedEntries == {SignedEntry(id, ts, h) : id \in RecordsIds, ts \in Timestamps, h \in Hashes}
is_empty(entry) == entry.record.hash = EMPTY_HASH

\* What a get_many is tried on: the entries of one namespace, and the keys
\* its filters name.
QueryNamespace == CHOOSE ns \in NamespaceIds : \A other \in NamespaceIds : ns <= other
QueryKeys == {k \in Keys : \A i \in 1..Len(k) : k[i] = 255}
QueryEntries == {e \in SignedEntries : e.id[1] = QueryNamespace /\ e.id[3] \in QueryKeys}
FilterKeys == {k \in QueryKeys : Len(k) > 0}
NoIterator == [active |-> FALSE]

\* RecordsValue = (timestamp, signature_namespace, signature_author, len, hash)
RecordsValue(e) ==
    <<e.record.timestamp, e.signature.namespace, e.signature.author, e.record.len,
      e.record.hash>>
into_entry(key, value) ==
    [id |-> key,
     record |-> [hash |-> value[5], len |-> value[4], timestamp |-> value[1]],
     signature |-> [namespace |-> value[2], author |-> value[3]]]
value_is_empty(value) == value[5] = EMPTY_HASH

\* The tables as one record, for the operations below.
StoreState ==
    [records_table |-> records_table, by_key_table |-> by_key_table,
     latest_table |-> latest_table, namespaces_table |-> namespaces_table,
     open_replicas |-> open_replicas]

get_one_in(table, namespace, author, key, include_empty) ==
    LET table_key == <<namespace, author, key>> IN
    IF table_key \notin DOMAIN table THEN None
    ELSE LET entry == into_entry(table_key, table[table_key]) IN
         IF ~include_empty /\ is_empty(entry) THEN None ELSE entry

get_one(st, namespace, author, key) ==
    get_one_in(st.records_table, namespace, author, key, FALSE)

\* StoreInstance::all: the entries of the namespace in key order.
all(st, namespace) ==
    LET ids == RecordsSorted({id \in DOMAIN st.records_table :
                                RecordsBounds_namespace(namespace, id)})
    IN [i \in 1..Len(ids) |-> into_entry(ids[i], st.records_table[ids[i]])]

put_without_latest(st, e) ==
    [st EXCEPT !.records_table = Put(st.records_table, e.id, RecordsValue(e)),
               !.by_key_table = st.by_key_table \cup {<<e.id[1], e.id[3], e.id[2]>>}]
put_without_records(st, e) ==
    [st EXCEPT !.by_key_table = st.by_key_table \cup {<<e.id[1], e.id[3], e.id[2]>>},
               !.latest_table = Put(st.latest_table, <<e.id[1], e.id[2]>>,
                                    <<e.record.timestamp, e.id[3]>>)]
\* put that keeps the latest row when it is newer than the entry.
put_latest_if_newer(st, e) ==
    [st EXCEPT !.records_table = Put(st.records_table, e.id, RecordsValue(e)),
               !.by_key_table = st.by_key_table \cup {<<e.id[1], e.id[3], e.id[2]>>},
               !.latest_table =
                    IF /\ <<e.id[1], e.id[2]>> \in DOMAIN st.latest_table
                       /\ st.latest_table[<<e.id[1], e.id[2]>>][1] > e.record.timestamp
                    THEN st.latest_table
                    ELSE Put(st.latest_table, <<e.id[1], e.id[2]>>,
                             <<e.record.timestamp, e.id[3]>>)]
put(st, e) ==
    [st EXCEPT !.records_table = Put(st.records_table, e.id, RecordsValue(e)),
               !.by_key_table = st.by_key_table \cup {<<e.id[1], e.id[3], e.id[2]>>},
               !.latest_table = Put(st.latest_table, <<e.id[1], e.id[2]>>,
                                    <<e.record.timestamp, e.id[3]>>)]

\* remove returns the entry it removed; the state after it is remove(st, id).
removed(st, id) ==
    IF id \in DOMAIN st.records_table THEN into_entry(id, st.records_table[id]) ELSE None
remove_by_key_only(st, id) ==
    [st EXCEPT !.by_key_table = st.by_key_table \ {<<id[1], id[3], id[2]>>}]
remove(st, id) ==
    [st EXCEPT !.by_key_table = st.by_key_table \ {<<id[1], id[3], id[2]>>},
               !.records_table = Del(st.records_table, id)]

\* The predicates a caller hands to remove_prefix_filtered: a record is
\* dropped when it is not newer than a given timestamp.
Predicates == 0..MaxTimestamp
predicate(max_timestamp, record) == record.timestamp <= max_timestamp
drained(st, id, p) ==
    {k \in DOMAIN st.records_table :
        /\ RecordsBounds_author_prefix(id[1], id[2], id[3], k)
        /\ predicate(p, into_entry(k, st.records_table[k]).record)}
remove_prefix_filtered(st, id, p) ==
    [st EXCEPT !.records_table =
        [k \in (DOMAIN st.records_table) \ drained(st, id, p) |-> st.records_table[k]] @@ <<>>]

remove_replica_is_err(st, namespace) == namespace \in st.open_replicas
remove_replica_unchecked(st, namespace) ==
    [st EXCEPT
        !.records_table =
            [k \in {id \in DOMAIN st.records_table :
                        ~RecordsBounds_namespace(namespace, id)} |-> st.records_table[k]]
            @@ <<>>,
        !.by_key_table = {id \in st.by_key_table : ~ByKeyBounds_namespace(namespace, id)},
        !.namespaces_table = st.namespaces_table \ {namespace}]
remove_replica(st, namespace) ==
    IF remove_replica_is_err(st, namespace) THEN st
    ELSE [st EXCEPT
            !.records_table =
                [k \in {id \in DOMAIN st.records_table :
                            ~RecordsBounds_namespace(namespace, id)} |-> st.records_table[k]]
                @@ <<>>,
            !.by_key_table = {id \in st.by_key_table : ~ByKeyBounds_namespace(namespace, id)},
            !.namespaces_table = st.namespaces_table \ {namespace}]

\* LatestIterator: the rows (namespace, author) -> (timestamp, key) of the
\* namespace in author order, as (author, timestamp, key).
RECURSIVE LatestSorted(_)
LatestSorted(keys) ==
    IF keys = {} THEN <<>>
    ELSE LET first == CHOOSE a \in keys : \A b \in keys : a[2] <= b[2]
         IN <<first>> \o LatestSorted(keys \ {first})
get_latest_for_each_author(st, namespace) ==
    LET keys == LatestSorted({k \in DOMAIN st.latest_table : k[1] = namespace})
    IN [i \in 1..Len(keys) |->
            <<keys[i][2], st.latest_table[keys[i]][1], st.latest_table[keys[i]][2]>>]

insert_namespace(st, namespace) ==
    [st EXCEPT !.namespaces_table = st.namespaces_table \cup {namespace}]

\* Store::open_replica, in the three steps it takes: the check of the open
\* set under the read lock, the lookup of the namespace in a read
\* transaction, the insertion into the open set under the write lock.
open_replica_check(st, namespace_id) == namespace_id \in st.open_replicas
open_replica_lookup(st, namespace_id) == namespace_id \in st.namespaces_table
open_replica_insert(st, namespace_id) ==
    [st EXCEPT !.open_replicas = st.open_replicas \cup {namespace_id}]
open_replica_result_unchecked(st, namespace_id) ==
    IF ~open_replica_lookup(st, namespace_id) THEN "NotFound" ELSE "Ok"
open_replica_result(st, namespace_id) ==
    IF open_replica_check(st, namespace_id) THEN "AlreadyOpen"
    ELSE IF ~open_replica_lookup(st, namespace_id) THEN "NotFound"
    ELSE "Ok"
open_replica(st, namespace_id) ==
    IF open_replica_result(st, namespace_id) = "Ok" THEN open_replica_insert(st, namespace_id)
    ELSE st
close_replica(st, namespace_id) ==
    [st EXCEPT !.open_replicas = st.open_replicas \ {namespace_id}]

\* ------------------------------------------------------------ store actions

\* Store::new on a fresh file: every table exists and is empty.
\* No get_range call is between its two iterators.
NoReader == [pc |-> "idle"]
\* The states of the records table that were committed while a get_range call
\* was between its two iterators.
observe(reader, table) ==
    IF reader.pc = "first" THEN [reader EXCEPT !.seen = @ \cup {table}] ELSE reader

StoreNew ==
    /\ records_table = <<>>
    /\ by_key_table = {}
    /\ latest_table = <<>>
    /\ namespaces_table = {}
    /\ open_replicas = {}
    /\ handles = [ns \in NamespaceIds |-> 0]
    /\ threads = [t \in ThreadIds |-> [pc |-> "idle", namespace |-> None]]
    /\ last_op = [op |-> "new"]
    /\ last_put = <<>>
    /\ store_ops = 0
    /\ query_iter = NoIterator
    /\ peers_table = [ns \in NamespaceIds |-> {}]
    /\ registered = [ns \in NamespaceIds |-> <<>>]
    /\ range_reader = NoReader
    /\ yielded = <<>>

\* One operation of a single caller: the tables after it and what it was.
StoreOpWithin(st, op, max_ops) ==
    /\ store_ops < max_ops
    /\ store_ops' = store_ops + 1
    /\ records_table' = st.records_table
    /\ by_key_table' = st.by_key_table
    /\ latest_table' = st.latest_table
    /\ namespaces_table' = st.namespaces_table
    /\ open_replicas' = st.open_replicas
    /\ last_op' = op
    /\ range_reader' = observe(range_reader, st.records_table)
    /\ UNCHANGED threads /\ UNCHANGED queryVars /\ UNCHANGED peerVars
    /\ UNCHANGED schedVars /\ UNCHANGED driverVars
StoreOp(st, op) == StoreOpWithin(st, op, MaxStoreOps)

ImportNamespaceWithin(max_ops) ==
    \E ns \in NamespaceIds :
        /\ StoreOpWithin(insert_namespace(StoreState, ns),
                         [op |-> "import_namespace", namespace |-> ns], max_ops)
        /\ UNCHANGED <<last_put, handles>>

OpenReplicaWithin(max_ops) ==
    \E ns \in NamespaceIds :
        /\ StoreOpWithin(open_replica(StoreState, ns),
                         [op |-> "open_replica", namespace |-> ns,
                          result |-> open_replica_result(StoreState, ns),
                          after_close |-> last_op = [op |-> "close_replica", namespace |-> ns]],
                         max_ops)
        /\ handles' = IF open_replica_result(StoreState, ns) = "Ok"
                      THEN [handles EXCEPT ![ns] = @ + 1] ELSE handles
        /\ UNCHANGED last_put

CloseReplicaWithin(max_ops) ==
    \E ns \in NamespaceIds :
        /\ handles[ns] > 0
        /\ StoreOpWithin(close_replica(StoreState, ns),
                         [op |-> "close_replica", namespace |-> ns], max_ops)
        /\ handles' = [handles EXCEPT ![ns] = @ - 1]
        /\ UNCHANGED last_put

RemoveReplicaWithin(max_ops) ==
    \E ns \in NamespaceIds :
        /\ StoreOpWithin(remove_replica(StoreState, ns),
                         [op |-> "remove_replica", namespace |-> ns,
                          result |-> IF remove_replica_is_err(StoreState, ns)
                                     THEN "Err" ELSE "Ok"],
                         max_ops)
        /\ UNCHANGED <<last_put, handles>>

PutWithin(entries, max_ops) ==
    \E e \in entries :
        /\ StoreOpWithin(put(StoreState, e), [op |-> "put", entry |-> e], max_ops)
        /\ last_put' = Put(last_put, <<e.id[1], e.id[2]>>, e)
        /\ UNCHANGED handles

StoreImportNamespace == ImportNamespaceWithin(MaxStoreOps)
StoreOpenReplica == OpenReplicaWithin(MaxStoreOps)
StoreCloseReplica == CloseReplicaWithin(MaxStoreOps)
StoreRemoveReplica == RemoveReplicaWithin(MaxStoreOps)
StorePut == PutWithin(SignedEntries, MaxStoreOps)

StoreRemove ==
    \E id \in RecordsIds :
        /\ StoreOp(remove(StoreState, id),
                   [op |-> "remove", id |-> id, result |-> removed(StoreState, id)])
        /\ UNCHANGED <<last_put, handles>>

StoreRemovePrefixFiltered ==
    \E id \in RecordsIds, p \in Predicates :
        /\ StoreOp(remove_prefix_filtered(StoreState, id, p),
                   [op |-> "remove_prefix_filtered", id |-> id, predicate |-> p,
                    result |-> Cardinality(drained(StoreState, id, p))])
        /\ UNCHANGED <<last_put, handles>>

\* The scheduler before any event, while the store is at work.
SchedIdle ==
    /\ groups = <<>>
    /\ resources = <<>>
    /\ nodes = <<>>
    /\ limits = [max_concurrent_requests |-> MaxRequests,
                 max_concurrent_requests_per_node |-> MaxPerNode,
                 max_open_connections |-> MaxConnections]
    /\ active_transfers = <<>>
    /\ transfer_id = 0
    /\ actions = <<>>
    /\ events = 0
    /\ dialing = {}
    /\ timers = [t \in Timers |-> 0]
    /\ failures = [n \in NodeIds |-> 0]

StoreInit == SchedIdle /\ StoreNew

NextStore ==
    \/ StoreImportNamespace
    \/ StoreOpenReplica
    \/ StoreCloseReplica
    \/ StoreRemoveReplica
    \/ StorePut
    \/ StoreRemove
    \/ StoreRemovePrefixFiltered

SpecStore == StoreInit /\ [][NextStore]_vars

\* The store under put and remove alone.
NextPutRemove ==
    \/ StorePut
    \/ StoreRemove

SpecPutRemove == StoreInit /\ [][NextPutRemove]_vars

\* The life of replicas: namespaces are imported, opened, written to, closed
\* and removed; fewer entries, more operations.
LifecycleEntries ==
    {e \in SignedEntries : e.id[3] = <<>> /\ e.record.timestamp = MaxTimestamp /\ ~is_empty(e)}
LifecycleImportNamespace == ImportNamespaceWithin(MaxLifecycleOps)
LifecycleOpenReplica == OpenReplicaWithin(MaxLifecycleOps)
LifecycleCloseReplica == CloseReplicaWithin(MaxLifecycleOps)
LifecycleRemoveReplica == RemoveReplicaWithin(MaxLifecycleOps)
LifecyclePut == PutWithin(LifecycleEntries, MaxLifecycleOps)

NextLifecycle ==
    \/ LifecycleImportNamespace
    \/ LifecycleOpenReplica
    \/ LifecycleCloseReplica
    \/ LifecycleRemoveReplica
    \/ LifecyclePut

SpecLifecycle == StoreInit /\ [][NextLifecycle]_vars

\* ------------------------------------------------------------- migrations

\* migration 001: the row of an author in a namespace is rebuilt from the
\* author's record with the greatest timestamp, the greatest key among equals.
head_of(records, namespace, author) ==
    LET own == {id \in DOMAIN records : id[1] = namespace /\ id[2] = author}
    IN CHOOSE id \in own : \A other \in own :
            \/ records[other][1] < records[id][1]
            \/ records[other][1] = records[id][1] /\ ~KeyLess(id[3], other[3])
migration_001_populate_latest_table(records) ==
    [k \in {<<id[1], id[2]>> : id \in DOMAIN records} |->
        <<records[head_of(records, k[1], k[2])][1], head_of(records, k[1], k[2])[3]>>]
\* migration 002: one row of the index by key for every record.
migration_002_populate_by_key_index(records) ==
    {<<id[1], id[3], id[2]>> : id \in DOMAIN records}

\* Store::new on a database file that holds the tables of st: the migrations
\* run in the opening transaction, and the store starts with no open replica.
Store_new(st) ==
    LET latest_is_empty == DOMAIN st.latest_table = {}
        by_key_is_empty == st.by_key_table = {}
        records_is_empty == DOMAIN st.records_table = {}
    IN [st EXCEPT
          !.latest_table = IF latest_is_empty /\ ~records_is_empty
                           THEN migration_001_populate_latest_table(st.records_table)
                           ELSE st.latest_table,
          !.by_key_table = IF by_key_is_empty /\ ~records_is_empty
                           THEN migration_002_populate_by_key_index(st.records_table)
                           ELSE st.by_key_table,
          !.open_replicas = {}]

\* copy_and_modify with delete_table(LATEST_TABLE)
delete_latest_table(st) == [st EXCEPT !.latest_table = <<>>]

\* A store is written to, dropped and opened again, on its own file or on a
\* copy of the file without the latest table.
MigrationEntries ==
    {e \in SignedEntries : e.id[1] = QueryNamespace /\ ~is_empty(e)}
MigrationPut == PutWithin(MigrationEntries, MaxMigrationOps)
MigrationRemove ==
    \E id \in DOMAIN records_table :
        /\ StoreOpWithin(remove(StoreState, id),
                         [op |-> "remove", id |-> id, result |-> removed(StoreState, id)],
                         MaxMigrationOps)
        /\ UNCHANGED <<last_put, handles>>
Reopen ==
    \E table_deleted \in BOOLEAN :
        LET file == IF table_deleted THEN delete_latest_table(StoreState) ELSE StoreState
        IN /\ StoreOpWithin(Store_new(file),
                            [op |-> "reopen", table_deleted |-> table_deleted,
                             before |-> StoreState],
                            MaxMigrationOps)
           /\ handles' = [ns \in NamespaceIds |-> 0]
           /\ UNCHANGED last_put

NextMigration == MigrationPut \/ MigrationRemove \/ Reopen

SpecMigration == StoreInit /\ [][NextMigration]_vars

\* --------------------------------------------------- concurrent open / close

\* Threads that share one Store (it is Clone and its open set is behind an
\* Arc<RwLock>); each step below is one critical section of open_replica or
\* close_replica.
ReplicaStep(t, pc, namespace, st) ==
    /\ threads' = [threads EXCEPT ![t] = [pc |-> pc, namespace |-> namespace]]
    /\ open_replicas' = st.open_replicas
    /\ namespaces_table' = st.namespaces_table
    /\ UNCHANGED <<records_table, by_key_table, latest_table, last_op, last_put, store_ops>>
    /\ UNCHANGED queryVars /\ UNCHANGED peerVars /\ UNCHANGED readerVars
    /\ UNCHANGED schedVars /\ UNCHANGED driverVars

ReplicaImportNamespace ==
    \E t \in ThreadIds, ns \in NamespaceIds :
        /\ threads[t].pc = "idle"
        /\ ns \notin namespaces_table
        /\ ReplicaStep(t, "idle", None, insert_namespace(StoreState, ns))
        /\ UNCHANGED handles

\* if self.open_replicas.read().contains(namespace_id) { return Err(AlreadyOpen) }
ReplicaOpenCheck ==
    \E t \in ThreadIds, ns \in NamespaceIds :
        /\ threads[t].pc = "idle"
        /\ IF open_replica_check(StoreState, ns)
           THEN ReplicaStep(t, "idle", None, StoreState)
           ELSE ReplicaStep(t, "lookup", ns, StoreState)
        /\ UNCHANGED handles

\* let Some(namespace) = namespace_table.get(..) else { return Err(NotFound) }
ReplicaOpenLookup ==
    \E t \in ThreadIds :
        /\ threads[t].pc = "lookup"
        /\ IF open_replica_lookup(StoreState, threads[t].namespace)
           THEN ReplicaStep(t, "insert", threads[t].namespace, StoreState)
           ELSE ReplicaStep(t, "idle", None, StoreState)
        /\ UNCHANGED handles

\* self.open_replicas.write().insert(*namespace_id); Ok(replica)
ReplicaOpenInsert ==
    \E t \in ThreadIds :
        /\ threads[t].pc = "insert"
        /\ ReplicaStep(t, "holding", threads[t].namespace,
                       open_replica_insert(StoreState, threads[t].namespace))
        /\ handles' = [handles EXCEPT ![threads[t].namespace] = @ + 1]

ReplicaClose ==
    \E t \in ThreadIds :
        /\ threads[t].pc = "holding"
        /\ ReplicaStep(t, "idle", None, close_replica(StoreState, threads[t].namespace))
        /\ handles' = [handles EXCEPT ![threads[t].namespace] = @ - 1]

NextReplica ==
    \/ ReplicaImportNamespace
    \/ ReplicaOpenCheck
    \/ ReplicaOpenLookup
    \/ ReplicaOpenInsert
    \/ ReplicaClose

SpecReplica == StoreInit /\ [][NextReplica]_vars

\* ------------------------------------------------- concurrent remove_replica

\* remove_replica beside open_replica on one Store: its test of the open set
\* under the read lock and its write transaction are two critical sections.
\* A thread that holds a replica writes entries through it.
ThreadStep(t, pc, namespace, st) ==
    /\ threads' = [threads EXCEPT ![t] = [pc |-> pc, namespace |-> namespace]]
    /\ records_table' = st.records_table
    /\ by_key_table' = st.by_key_table
    /\ latest_table' = st.latest_table
    /\ namespaces_table' = st.namespaces_table
    /\ open_replicas' = st.open_replicas
    /\ UNCHANGED <<last_op, store_ops, handles>>
    /\ UNCHANGED queryVars /\ UNCHANGED peerVars /\ UNCHANGED readerVars
    /\ UNCHANGED schedVars /\ UNCHANGED driverVars

RemovalEntries ==
    {e \in SignedEntries :
        e.id[3] = <<>> /\ e.record.timestamp = MaxTimestamp /\ ~is_empty(e)}
ReplicaPut ==
    \E t \in ThreadIds, e \in RemovalEntries :
        /\ threads[t].pc = "holding"
        /\ e.id[1] = threads[t].namespace
        /\ ThreadStep(t, "holding", threads[t].namespace, put(StoreState, e))
        /\ last_put' = Put(last_put, <<e.id[1], e.id[2]>>, e)

\* if self.open_replicas.read().contains(namespace) { return Err(..) }
ReplicaRemoveCheck ==
    \E t \in ThreadIds, ns \in NamespaceIds :
        /\ threads[t].pc = "idle"
        /\ IF remove_replica_is_err(StoreState, ns)
           THEN ThreadStep(t, "idle", None, StoreState)
           ELSE ThreadStep(t, "remove", ns, StoreState)
        /\ UNCHANGED last_put

\* the write transaction of remove_replica, to its commit
ReplicaRemoveCommit ==
    \E t \in ThreadIds :
        /\ threads[t].pc = "remove"
        /\ ThreadStep(t, "idle", None,
                      remove_replica_unchecked(StoreState, threads[t].namespace))
        /\ UNCHANGED last_put

NextRemoval ==
    \/ ReplicaImportNamespace
    \/ ReplicaOpenCheck
    \/ ReplicaOpenLookup
    \/ ReplicaOpenInsert
    \/ ReplicaClose
    \/ ReplicaPut
    \/ ReplicaRemoveCheck
    \/ ReplicaRemoveCommit

SpecRemoval == StoreInit /\ [][NextRemoval]_vars


\* ------------------------------------------------------- range reconciliation

\* RecordsBounds::with_bounds(Included(x), Excluded(y)): the bounds as given.
RecordsBounds_with_bounds_included(x, y, id) == ~RecordsIdLess(id, x) /\ ~RecordsIdLess(y, id)
RecordsBounds_with_bounds(x, y, id) == ~RecordsIdLess(id, x) /\ RecordsIdLess(id, y)
\* The two halves of a split range, clipped to the namespace.
RecordsBounds_from_start(ns, y, id) == id[1] = ns /\ RecordsIdLess(id, y)
RecordsBounds_to_end(ns, x, id) == id[1] = ns /\ ~RecordsIdLess(id, x)

\* RangeIterator over the rows of the records table with the given ids.
RangeIterator_with_bounds(st, ids) ==
    LET sorted == RecordsSorted(ids \cap DOMAIN st.records_table)
    IN [i \in 1..Len(sorted) |-> into_entry(sorted[i], st.records_table[sorted[i]])]
RangeIterator_empty == <<>>

get_range_second_half_first(st, namespace, x, y) ==
    IF x = y
    THEN RangeIterator_with_bounds(st, {id \in RecordsIds : RecordsBounds_namespace(namespace, id)})
    ELSE IF RecordsIdLess(x, y)
    THEN RangeIterator_with_bounds(st, {id \in RecordsIds : RecordsBounds_with_bounds(x, y, id)})
    ELSE RangeIterator_with_bounds(st, {id \in RecordsIds : RecordsBounds_to_end(namespace, x, id)})
         \o RangeIterator_with_bounds(st, {id \in RecordsIds : RecordsBounds_from_start(namespace, y, id)})
get_range(st, namespace, x, y) ==
    IF x = y
    THEN RangeIterator_with_bounds(st, {id \in RecordsIds : RecordsBounds_namespace(namespace, id)})
         \o RangeIterator_empty
    ELSE IF RecordsIdLess(x, y)
    THEN RangeIterator_with_bounds(st, {id \in RecordsIds : RecordsBounds_with_bounds(x, y, id)})
         \o RangeIterator_empty
    ELSE RangeIterator_with_bounds(st, {id \in RecordsIds : RecordsBounds_from_start(namespace, y, id)})
         \o RangeIterator_with_bounds(st, {id \in RecordsIds : RecordsBounds_to_end(namespace, x, id)})

\* A Fingerprint is a digest with XOR as its operation. The digest of an entry
\* covers its id, its record and its signatures; digests of different entries
\* are taken as independent, so that a fingerprint is the set of the digests
\* that occur an odd number of times in it.
Fingerprint_empty == {}
as_fingerprint(entry) == {<<entry.id, entry.record, entry.signature>>}
Fingerprint_xor(a, b) == (a \ b) \cup (b \ a)

RECURSIVE fold_fingerprint(_, _)
fold_fingerprint(fp, elements) ==
    IF elements = <<>> THEN fp
    ELSE fold_fingerprint(Fingerprint_xor(fp, as_fingerprint(Head(elements))), Tail(elements))

get_fingerprint_of_tail(st, namespace, x, y) ==
    LET elements == get_range(st, namespace, x, y)
    IN IF elements = <<>> THEN Fingerprint_empty
       ELSE fold_fingerprint(Fingerprint_empty, Tail(elements))
get_fingerprint(st, namespace, x, y) ==
    LET elements == get_range(st, namespace, x, y)
    IN fold_fingerprint(Fingerprint_empty, elements)

\* A ParentIterator that starts with the shortest prefix.
RECURSIVE ParentIterator_collect_shortest_first(_, _, _, _)
ParentIterator_collect_shortest_first(table, namespace, author, key) ==
    IF key = <<>> THEN <<>>
    ELSE LET entry == get_one_in(table, namespace, author, key, FALSE)
             rest == ParentIterator_collect_shortest_first(table, namespace, author,
                                                           SubSeq(key, 1, Len(key) - 1))
         IN IF entry = None THEN rest ELSE rest \o <<entry>>

\* ParentIterator::next until it returns None: one lookup for the key and for
\* each of its prefixes as long as the key is not empty, the longest first.
RECURSIVE ParentIterator_collect(_, _, _, _)
ParentIterator_collect(table, namespace, author, key) ==
    IF key = <<>> THEN <<>>
    ELSE LET entry == get_one_in(table, namespace, author, key, FALSE)
             rest == ParentIterator_collect(table, namespace, author,
                                            SubSeq(key, 1, Len(key) - 1))
         IN IF entry = None THEN rest ELSE <<entry>> \o rest
prefixes_of_and_empty_key(st, id) ==
    ParentIterator_collect(st.records_table, id[1], id[2], id[3])
    \o (LET entry == get_one_in(st.records_table, id[1], id[2], <<>>, FALSE)
        IN IF entry = None THEN <<>> ELSE <<entry>>)
prefixes_of(st, id) == ParentIterator_collect(st.records_table, id[1], id[2], id[3])

\* A read of a replica: the tables stay as they are.
StoreRead(op) ==
    /\ StoreOpWithin(StoreState, op, MaxRangeOps)
    /\ UNCHANGED <<last_put, handles>>

RangeIds == {id \in RecordsIds : id[3] \in QueryKeys}
RangeEntries ==
    {e \in SignedEntries :
        e.id \in RangeIds /\ e.record.timestamp = MaxTimestamp /\ ~is_empty(e)}
RangePut == PutWithin(RangeEntries, MaxRangeOps)
GetRange ==
    \E ns \in NamespaceIds, x \in RangeIds, y \in RangeIds :
        StoreRead([op |-> "get_range", namespace |-> ns, x |-> x, y |-> y,
                   result |-> get_range(StoreState, ns, x, y)])
GetFingerprint ==
    \E ns \in NamespaceIds, x \in RangeIds, y \in RangeIds :
        StoreRead([op |-> "get_fingerprint", namespace |-> ns, x |-> x, y |-> y,
                   result |-> get_fingerprint(StoreState, ns, x, y)])
NextRange == RangePut \/ GetRange \/ GetFingerprint

SpecRange == StoreInit /\ [][NextRange]_vars

\* The keys prefixes_of is tried on: a key, its prefix and the empty key.
PrefixKeys == {[i \in 1..n |-> 255] : n \in 0..MaxPrefixKeyLen}
PrefixIds == {<<ns, author, key>> : ns \in NamespaceIds, author \in AuthorIds, key \in PrefixKeys}
PrefixEntries == {SignedEntry(id, MaxTimestamp, hash) : id \in PrefixIds, hash \in Hashes}
PrefixPut == PutWithin(PrefixEntries, MaxPrefixOps)
PrefixesOf ==
    \E id \in PrefixIds :
        /\ StoreOpWithin(StoreState, [op |-> "prefixes_of", id |-> id,
                                      result |-> prefixes_of(StoreState, id)], MaxPrefixOps)
        /\ UNCHANGED <<last_put, handles>>

NextPrefix == PrefixPut \/ PrefixesOf

SpecPrefix == StoreInit /\ [][NextPrefix]_vars

\* --------------------------------------------------- concurrent get_range

\* get_range of a split range opens two iterators one after the other, each
\* with a read transaction of its own: other callers commit in between.
SnapshotPut == PutWithin(RangeEntries, MaxSnapshotOps)
SnapshotRemove ==
    \E id \in DOMAIN records_table :
        /\ StoreOpWithin(remove(StoreState, id),
                         [op |-> "remove", id |-> id, result |-> removed(StoreState, id)],
                         MaxSnapshotOps)
        /\ UNCHANGED <<last_put, handles>>
ReaderStep(reader) ==
    /\ range_reader' = reader
    /\ UNCHANGED <<records_table, by_key_table, latest_table, namespaces_table,
                   open_replicas, last_op, last_put, store_ops, handles, threads>>
    /\ UNCHANGED queryVars /\ UNCHANGED peerVars
    /\ UNCHANGED schedVars /\ UNCHANGED driverVars
GetRangeFirst ==
    \E ns \in NamespaceIds, x \in RangeIds, y \in RangeIds :
        /\ range_reader.pc = "idle"
        /\ RecordsIdLess(y, x)
        /\ ReaderStep([pc |-> "first", namespace |-> ns, x |-> x, y |-> y,
                       iter |-> RangeIterator_with_bounds(StoreState,
                                    {id \in RecordsIds : RecordsBounds_from_start(ns, y, id)}),
                       seen |-> {records_table}])
GetRangeSecond ==
    /\ range_reader.pc = "first"
    /\ ReaderStep([pc |-> "chained", namespace |-> range_reader.namespace,
                   x |-> range_reader.x, y |-> range_reader.y,
                   seen |-> range_reader.seen,
                   result |-> range_reader.iter
                              \o RangeIterator_with_bounds(StoreState,
                                    {id \in RecordsIds :
                                        RecordsBounds_to_end(range_reader.namespace,
                                                             range_reader.x, id)})])

NextSnapshot == SnapshotPut \/ SnapshotRemove \/ GetRangeFirst \/ GetRangeSecond

SpecSnapshot == StoreInit /\ [][NextSnapshot]_vars

\* ------------------------------------------------------------- useful peers

PeerIds == 1..NumPeers
Nanos == 1..MaxNanos

\* The values of a multimap key iterate in the order of (nanos, peer).
PeerEntryLess(a, b) == a[1] < b[1] \/ (a[1] = b[1] /\ a[2] < b[2])
oldest_entry(entries) == CHOOSE e \in entries : \A o \in entries \ {e} : PeerEntryLess(e, o)
\* The entry that the scan of the rest finds first for the peer.
prev_peer_nanos(entries, peer) ==
    LET rest == {e \in entries \ {oldest_entry(entries)} : e[2] = peer}
    IN {(CHOOSE e \in rest : \A o \in rest \ {e} : PeerEntryLess(e, o))[1] : x \in
            IF rest = {} THEN {} ELSE {1}}

register_useful_peer_without_eviction(table, namespace, peer, nanos) ==
    [table EXCEPT ![namespace] = {e \in @ : e[2] # peer} \cup {<<nanos, peer>>}]
register_useful_peer(table, namespace, peer, nanos) ==
    LET namespace_peers == table[namespace] IN
    IF namespace_peers = {} THEN [table EXCEPT ![namespace] = {<<nanos, peer>>}]
    ELSE LET oldest == oldest_entry(namespace_peers) IN
         IF oldest[2] = peer
         THEN [table EXCEPT ![namespace] = (@ \ {oldest}) \cup {<<nanos, peer>>}]
         ELSE LET len == Cardinality(namespace_peers)
                  prev == prev_peer_nanos(namespace_peers, peer)
              IN IF prev # {}
                 THEN [table EXCEPT ![namespace] =
                          (@ \ {<<prev_nanos, peer>> : prev_nanos \in prev})
                          \cup {<<nanos, peer>>}]
                 ELSE IF len + 1 > PEERS_PER_DOC_CACHE_SIZE
                 THEN [table EXCEPT ![namespace] = (@ \cup {<<nanos, peer>>}) \ {oldest}]
                 ELSE [table EXCEPT ![namespace] = @ \cup {<<nanos, peer>>}]

\* The system clock gives any time: it is not monotonic.
RegisterUsefulPeer ==
    \E ns \in NamespaceIds, peer \in PeerIds, nanos \in Nanos :
        /\ peers_table' = register_useful_peer(peers_table, ns, peer, nanos)
        /\ last_op' = [op |-> "register_useful_peer", namespace |-> ns,
                       len |-> Cardinality(peers_table[ns]),
                       known |-> \E e \in peers_table[ns] : e[2] = peer]
        /\ UNCHANGED <<records_table, by_key_table, latest_table, namespaces_table,
                       open_replicas, last_put, store_ops, handles, threads, registered>>
        /\ UNCHANGED queryVars /\ UNCHANGED readerVars
        /\ UNCHANGED schedVars /\ UNCHANGED driverVars

NextPeers == RegisterUsefulPeer

SpecPeers == StoreInit /\ [][NextPeers]_vars

\* get_sync_peers: the peers of the namespace from the last value of the
\* multimap to the first, None when there is none.
RECURSIVE peers_rev(_)
peers_rev(entries) ==
    IF entries = {} THEN <<>>
    ELSE LET last == CHOOSE e \in entries : \A o \in entries \ {e} : PeerEntryLess(o, e)
         IN <<last[2]>> \o peers_rev(entries \ {last})
get_sync_peers_oldest_first(table, namespace) ==
    LET peers == peers_rev(table[namespace])
    IN IF peers = <<>> THEN None ELSE [i \in 1..Len(peers) |-> peers[Len(peers) + 1 - i]]
get_sync_peers(table, namespace) ==
    LET peers == peers_rev(table[namespace])
    IN IF peers = <<>> THEN None ELSE peers

\* register_useful_peer under a clock that rises between two calls.
LruRegisterUsefulPeer ==
    \E ns \in NamespaceIds, peer \in PeerIds, nanos \in 1..MaxLruNanos :
        /\ \A other \in NamespaceIds :
             \A i \in DOMAIN registered[other] : registered[other][i][1] < nanos
        /\ peers_table' = register_useful_peer(peers_table, ns, peer, nanos)
        /\ registered' = [registered EXCEPT ![ns] = Append(@, <<nanos, peer>>)]
        /\ last_op' = [op |-> "register_useful_peer", namespace |-> ns,
                       len |-> Cardinality(peers_table[ns]),
                       known |-> \E e \in peers_table[ns] : e[2] = peer]
        /\ UNCHANGED <<records_table, by_key_table, latest_table, namespaces_table,
                       open_replicas, last_put, store_ops, handles, threads>>
        /\ UNCHANGED queryVars /\ UNCHANGED readerVars
        /\ UNCHANGED schedVars /\ UNCHANGED driverVars

NextLru == LruRegisterUsefulPeer

SpecLru == StoreInit /\ [][NextLru]_vars

\* ---------------------------------------------------------------- get_many

\* The filters of a Query (store.rs).
AuthorFilters == {[kind |-> "Any"]} \cup {[kind |-> "Exact", author |-> a] : a \in AuthorIds}
KeyFilters ==
    {[kind |-> "Any"]} \cup {[kind |-> k, key |-> key] : k \in {"Exact", "Prefix"}, key \in FilterKeys}
AuthorFilter_matches(filter, author) ==
    filter.kind = "Any" \/ filter.author = author
KeyFilter_matches(filter, key) ==
    CASE filter.kind = "Any" -> TRUE
      [] filter.kind = "Exact" -> filter.key = key
      [] filter.kind = "Prefix" -> IsPrefix(filter.key, key)

\* limit: Option<u64> is a set with at most one element.
Queries ==
    [author_filter : AuthorFilters, key_filter : KeyFilters,
     sort_direction : {"Asc", "Desc"}, offset : 0..MaxOffset,
     limit : {{}} \cup {{l} : l \in 0..MaxLimit}, include_empty : BOOLEAN]

\* The plans QueryIterator::new accepts for a query.
IndexKinds(query) ==
    {[kind |-> "AuthorKey", range |-> query.author_filter, key_filter |-> query.key_filter]}
    \cup {[kind |-> "KeyAuthor", range |-> query.key_filter,
           author_filter |-> query.author_filter, latest_per_key |-> l] : l \in BOOLEAN}

\* A successor that leaves the prefix as it is.
prefix_successor_unchanged(prefix) == {prefix}

\* The lexicographic successor of a prefix, the exclusive end of the keys
\* that start with it: the last byte that is not 0xFF is incremented and the
\* 0xFF bytes behind it are dropped. An Option: no element when every byte is
\* 0xFF.
RECURSIVE prefix_successor(_)
prefix_successor(prefix) ==
    IF prefix = <<>> THEN {}
    ELSE LET front == SubSeq(prefix, 1, Len(prefix) - 1)
             last == prefix[Len(prefix)]
         IN IF last = 255 THEN prefix_successor(front) ELSE {Append(front, last + 1)}

\* The exclusive end of the keys with a prefix: the successor of the prefix,
\* or else the lower end of what follows (an author is followed by the next
\* author, a namespace by the next namespace).
RecordsBounds_prefix_end(ns, author, prefix) ==
    LET successor == prefix_successor(prefix)
    IN IF successor = {} THEN <<ns, author + 1, <<>>>>
       ELSE <<ns, author, CHOOSE s \in successor : TRUE>>
ByKeyBounds_prefix_end(ns, prefix) ==
    LET successor == prefix_successor(prefix)
    IN IF successor = {} THEN <<ns + 1, <<>>, 0>>
       ELSE <<ns, CHOOSE s \in successor : TRUE, 0>>

\* The bounds of bounds.rs that a query uses: half-open intervals of the
\* table's key order, and the point or the author's rows for the other
\* filters.
RecordsBounds_bounded(ns, author, key_filter, id) ==
    CASE key_filter.kind = "Any" -> id[1] = ns /\ id[2] = author
      [] key_filter.kind = "Exact" -> id = <<ns, author, key_filter.key>>
      [] key_filter.kind = "Prefix" ->
            /\ ~RecordsIdLess(id, <<ns, author, key_filter.key>>)
            /\ RecordsIdLess(id, RecordsBounds_prefix_end(ns, author, key_filter.key))
ByKeyBounds_new(ns, key_filter, id) ==
    CASE key_filter.kind = "Any" -> id[1] = ns
      [] key_filter.kind = "Exact" -> id[1] = ns /\ id[2] = key_filter.key
      [] key_filter.kind = "Prefix" ->
            /\ ~RecordsByKeyIdLess(id, <<ns, key_filter.key, 0>>)
            /\ RecordsByKeyIdLess(id, ByKeyBounds_prefix_end(ns, key_filter.key))

QueryIterator_new(st, namespace, query, index_kind) ==
    [active |-> TRUE,
     finished |-> FALSE,
     range |->
        IF index_kind.kind = "AuthorKey"
        THEN IF index_kind.range.kind = "Exact"
             THEN [kind |-> "AuthorKey",
                   rows |-> RecordsSorted({id \in DOMAIN st.records_table :
                                RecordsBounds_bounded(namespace, index_kind.range.author,
                                                      index_kind.key_filter, id)}),
                   key_filter |-> [kind |-> "Any"]]
             ELSE [kind |-> "AuthorKey",
                   rows |-> RecordsSorted({id \in DOMAIN st.records_table :
                                RecordsBounds_namespace(namespace, id)}),
                   key_filter |-> index_kind.key_filter]
        ELSE [kind |-> "KeyAuthor",
              rows |-> ByKeySorted({id \in st.by_key_table :
                            ByKeyBounds_new(namespace, index_kind.range, id)}),
              author_filter |-> index_kind.author_filter,
              selector_active |-> index_kind.latest_per_key,
              selector |-> {}],
     query |-> query,
     offset |-> 0,
     count |-> 0]

\* TableRangeReader::next_matching: the next row of the range in the
\* direction that the matcher accepts, and the rows that remain.
next_matching(rows, direction, matching) ==
    LET hits == {i \in 1..Len(rows) : rows[i] \in matching} IN
    IF hits = {} THEN [item |-> {}, rows |-> <<>>]
    ELSE IF direction = "Asc"
    THEN LET i == CHOOSE h \in hits : \A o \in hits : h <= o
         IN [item |-> {rows[i]}, rows |-> SubSeq(rows, i + 1, Len(rows))]
    ELSE LET i == CHOOSE h \in hits : \A o \in hits : h >= o
         IN [item |-> {rows[i]}, rows |-> SubSeq(rows, 1, i - 1)]

\* RecordsByKeyRange::next_matching: the row of the index, then the lookup of
\* its record; a row without a record gives None.
by_key_next_matching(st, rows, direction, matching) ==
    LET r == next_matching(rows, direction, matching) IN
    [item |-> {into_entry(<<k[1], k[3], k[2]>>, st.records_table[<<k[1], k[3], k[2]>>]) :
                    k \in {x \in r.item : <<x[1], x[3], x[2]>> \in DOMAIN st.records_table}},
     rows |-> r.rows]

\* LatestPerKeySelector::push: what it answers and what it keeps.
selector_wins(entry, last) ==
    \/ entry.record.timestamp > last.record.timestamp
    \/ entry.record.timestamp = last.record.timestamp /\ entry.id[2] > last.id[2]
selector_push(selector, next) ==
    IF next = {} THEN
        IF selector = {} THEN [res |-> "Finished", out |-> {}, selector |-> {}]
        ELSE [res |-> "Some", out |-> selector, selector |-> {}]
    ELSE IF selector = {} THEN [res |-> "Continue", out |-> {}, selector |-> next]
    ELSE LET entry == CHOOSE e \in next : TRUE
             last == CHOOSE e \in selector : TRUE
         IN IF last.id[3] = entry.id[3]
            THEN [res |-> "Continue", out |-> {},
                  selector |-> IF selector_wins(entry, last) THEN next ELSE selector]
            ELSE [res |-> "Some", out |-> selector, selector |-> next]

\* The inner loop of the KeyAuthor arm of QueryIterator::next.
RECURSIVE key_author_next(_, _)
key_author_next(st, it) ==
    LET query == it.query
        r == by_key_next_matching(st, it.range.rows, query.sort_direction,
                {k \in st.by_key_table : AuthorFilter_matches(it.range.author_filter, k[3])})
        pushed == selector_push(it.range.selector, r.item)
        selector == IF it.range.selector_active THEN pushed.selector ELSE it.range.selector
        after == [it EXCEPT !.range.rows = r.rows, !.range.selector = selector]
        next == IF it.range.selector_active THEN pushed.out ELSE r.item
    IN IF it.range.selector_active /\ pushed.res = "Continue" THEN key_author_next(st, after)
       ELSE IF ~query.include_empty /\ \E e \in next : is_empty(e) THEN key_author_next(st, after)
       ELSE [next |-> next, it |-> after]

\* The AuthorKey arm: the next row that passes the key filter and the empty
\* filter.
author_key_next(st, it) ==
    LET r == next_matching(it.range.rows, it.query.sort_direction,
                {id \in DOMAIN st.records_table :
                    /\ KeyFilter_matches(it.range.key_filter, id[3])
                    /\ (it.query.include_empty \/ ~value_is_empty(st.records_table[id]))})
    IN [next |-> {into_entry(id, st.records_table[id]) : id \in r.item},
        it |-> [it EXCEPT !.range.rows = r.rows]]

RECURSIVE query_next_loop(_, _)
query_next_loop(st, it) ==
    LET n == IF it.range.kind = "AuthorKey" THEN author_key_next(st, it)
             ELSE key_author_next(st, it)
    IN IF n.it.offset < n.it.query.offset /\ n.next # {}
       THEN query_next_loop(st, [n.it EXCEPT !.offset = @ + 1])
       ELSE n

limit_reached(it) == \E limit \in it.query.limit : it.count >= limit
QueryIterator_next(st, it) ==
    IF limit_reached(it) THEN [next |-> {}, it |-> it]
    ELSE query_next_loop(st, it)

\* ------------------------------------------------------------ query actions

\* The store is filled by puts, then a query runs over it to its end.
QueryPut ==
    \E e \in QueryEntries :
        /\ ~query_iter.active
        /\ StoreOpWithin(put(StoreState, e), [op |-> "put", entry |-> e], MaxQueryPuts)
        /\ last_put' = Put(last_put, <<e.id[1], e.id[2]>>, e)
        /\ UNCHANGED handles

QueryNew ==
    \E query \in Queries :
        \E index_kind \in IndexKinds(query) :
            /\ ~query_iter.active
            /\ query_iter' = QueryIterator_new(StoreState, QueryNamespace, query, index_kind)
            /\ yielded' = <<>>
            /\ UNCHANGED <<records_table, by_key_table, latest_table, namespaces_table,
                           open_replicas, last_op, last_put, store_ops, handles, threads,
                           peers_table, registered, range_reader>>
            /\ UNCHANGED schedVars /\ UNCHANGED driverVars

QueryNext ==
    /\ query_iter.active
    /\ ~query_iter.finished
    /\ LET n == QueryIterator_next(StoreState, query_iter) IN
        /\ query_iter' = [n.it EXCEPT !.finished = (n.next = {})]
        /\ yielded' = IF n.next = {} THEN yielded
                      ELSE Append(yielded, CHOOSE e \in n.next : TRUE)
    /\ UNCHANGED <<records_table, by_key_table, latest_table, namespaces_table,
                   open_replicas, last_op, last_put, store_ops, handles, threads,
                           peers_table, registered, range_reader>>
    /\ UNCHANGED schedVars /\ UNCHANGED driverVars

NextQuery ==
    \/ QueryPut
    \/ QueryNew
    \/ QueryNext

SpecQuery == StoreInit /\ [][NextQuery]_vars

\* ----------------------------------------------------------- prefix queries

\* QueryIterator run to its end: the entries it yields.
RECURSIVE collect(_, _)
collect(st, it) ==
    LET n == QueryIterator_next(st, it)
    IN IF n.next = {} THEN <<>>
       ELSE <<CHOOSE e \in n.next : TRUE>> \o collect(st, n.it)

\* Query::author(author).key_prefix(prefix), with or without include_empty()
author_key_prefix(author, prefix, include_empty) ==
    [author_filter |-> [kind |-> "Exact", author |-> author],
     key_filter |-> [kind |-> "Prefix", key |-> prefix],
     sort_direction |-> "Asc", offset |-> 0, limit |-> {}, include_empty |-> include_empty]

\* get_many for the query, under each of the plans.
get_many(st, namespace, query) ==
    {collect(st, QueryIterator_new(st, namespace, query, index_kind)) :
        index_kind \in IndexKinds(query)}

\* Query::all(): no filter, ascending, no offset or limit, entries with content
\* only; it is not a latest-per-key query, so the selector stays off.
Query_all ==
    [author_filter |-> [kind |-> "Any"], key_filter |-> [kind |-> "Any"],
     sort_direction |-> "Asc", offset |-> 0, limit |-> {}, include_empty |-> FALSE]
get_many_flat(st, namespace, query) ==
    {collect(st, QueryIterator_new(st, namespace, query, index_kind)) :
        index_kind \in {k \in IndexKinds(query) :
                            k.kind = "AuthorKey" \/ ~k.latest_per_key}}

\* The keys of the entries: a byte and then 0xFF bytes; the prefixes asked for
\* are these and the empty one.
PrefixQueryKeys ==
    {k \in UNION {[1..n -> ByteVals] : n \in 1..MaxPrefixKeyLen} :
        \A i \in 2..Len(k) : k[i] = 255}
PrefixQueryEntries ==
    {SignedEntry(<<ns, author, key>>, MaxTimestamp, hash) :
        ns \in NamespaceIds, author \in AuthorIds, key \in PrefixQueryKeys, hash \in Hashes}
PrefixQueryPut == PutWithin(PrefixQueryEntries, MaxPrefixQueryOps)
GetManyPrefix ==
    \E author \in AuthorIds, prefix \in PrefixQueryKeys \cup {<<>>}, include_empty \in BOOLEAN :
        /\ StoreOpWithin(StoreState,
                         [op |-> "get_many", namespace |-> QueryNamespace,
                          author |-> author, prefix |-> prefix,
                          include_empty |-> include_empty,
                          result |-> get_many(StoreState, QueryNamespace,
                                        author_key_prefix(author, prefix, include_empty))],
                         MaxPrefixQueryOps)
        /\ UNCHANGED <<last_put, handles>>

NextPrefixQuery == PrefixQueryPut \/ GetManyPrefix

SpecPrefixQuery == StoreInit /\ [][NextPrefixQuery]_vars

\* ---------------------------------------------------------- scheduler actions

\* The fields of State as one record; the caller has drained the actions of
\* the previous event (State::events) before it hands in the next one.
SchedState ==
    [groups |-> groups, resources |-> resources, nodes |-> nodes,
     active_transfers |-> active_transfers, transfer_id |-> transfer_id,
     actions |-> <<>>]

\* State::handle: one of the end states of the handler becomes the state.
\* The id generator is capped at MaxTransfers and the run at MaxEvents events.
HandleWithin(S, max_events) ==
    /\ events < max_events
    /\ events' = events + 1
    /\ \E s \in S :
        /\ s.transfer_id <= MaxTransfers
        /\ groups' = s.groups
        /\ resources' = s.resources
        /\ nodes' = s.nodes
        /\ active_transfers' = s.active_transfers
        /\ transfer_id' = s.transfer_id
        /\ actions' = s.actions
        /\ UNCHANGED limits

Handle(S) == HandleWithin(S, MaxEvents)

\* The hints of an event name at most MaxHints resources, nodes and groups.
NodeHintsSet ==
    {h \in [resources : SUBSET ResourceIds, groups : SUBSET GroupIds] :
        Cardinality(h.resources) + Cardinality(h.groups) <= MaxHints}
ResourceHintsSet ==
    {h \in [nodes : Perms(NodeIds), skip_nodes : SUBSET NodeIds, groups : SUBSET GroupIds] :
        Len(h.nodes) + Cardinality(h.skip_nodes) + Cardinality(h.groups) <= MaxHints}

LimitsSet ==
    [max_concurrent_requests : 1..MaxRequests,
     max_concurrent_requests_per_node : 1..MaxPerNode,
     max_open_connections : 1..MaxConnections]

\* State::new(concurrency_limits)
SchedInit ==
    /\ groups = <<>>
    /\ resources = <<>>
    /\ nodes = <<>>
    /\ limits \in LimitsSet
    /\ active_transfers = <<>>
    /\ transfer_id = 0
    /\ actions = <<>>
    /\ events = 0
    /\ dialing = {}
    /\ timers = [t \in Timers |-> 0]
    /\ failures = [n \in NodeIds |-> 0]
    /\ StoreNew

\* InEvents in any order and with any content.
AddNode ==
    \E node \in NodeIds, hints \in NodeHintsSet :
        Handle(add_node(SchedState, node, hints)) /\ UNCHANGED driverVars /\ UNCHANGED storeVars

AddResource ==
    \E resource \in ResourceIds, hints \in ResourceHintsSet :
        Handle(add_resource(SchedState, resource, hints)) /\ UNCHANGED driverVars /\ UNCHANGED storeVars

TransferReady ==
    \E id \in TransferIds :
        Handle(on_transfer_ready(SchedState, id)) /\ UNCHANGED driverVars /\ UNCHANGED storeVars

TransferFailed ==
    \E id \in TransferIds, failure \in FailureActions :
        Handle(on_transfer_failed(SchedState, id, failure)) /\ UNCHANGED driverVars /\ UNCHANGED storeVars

NodeConnected ==
    \E node \in NodeIds :
        Handle(on_node_connected(SchedState, node)) /\ UNCHANGED driverVars /\ UNCHANGED storeVars

NodeFailed ==
    \E node \in NodeIds :
        Handle(on_node_failed(SchedState, node, TRUE)) /\ UNCHANGED driverVars /\ UNCHANGED storeVars

TimerExpired ==
    \E timer \in Timers :
        Handle(on_timer(SchedState, timer)) /\ UNCHANGED driverVars /\ UNCHANGED storeVars

Next ==
    \/ AddNode
    \/ AddResource
    \/ TransferReady
    \/ TransferFailed
    \/ NodeConnected
    \/ NodeFailed
    \/ TimerExpired

Spec == SchedInit /\ [][Next]_vars

\* Longer runs of the same events under the tightest limits: one request
\* per node and one open connection, so that resources wait for their node.
TightestLimits ==
    /\ \A l \in LimitsSet :
          /\ limits.max_concurrent_requests_per_node <= l.max_concurrent_requests_per_node
          /\ limits.max_open_connections <= l.max_open_connections
          /\ limits.max_concurrent_requests >= l.max_concurrent_requests
DeepInit == SchedInit /\ TightestLimits
DeepAddNode ==
    \E node \in NodeIds, hints \in NodeHintsSet :
        /\ HandleWithin(add_node(SchedState, node, hints), MaxDeepEvents)
        /\ UNCHANGED driverVars /\ UNCHANGED storeVars
DeepAddResource ==
    \E resource \in ResourceIds, hints \in ResourceHintsSet :
        /\ HandleWithin(add_resource(SchedState, resource, hints), MaxDeepEvents)
        /\ UNCHANGED driverVars /\ UNCHANGED storeVars
DeepTransferReady ==
    \E id \in TransferIds :
        /\ HandleWithin(on_transfer_ready(SchedState, id), MaxDeepEvents)
        /\ UNCHANGED driverVars /\ UNCHANGED storeVars
DeepTransferFailed ==
    \E id \in TransferIds, failure \in FailureActions :
        /\ HandleWithin(on_transfer_failed(SchedState, id, failure), MaxDeepEvents)
        /\ UNCHANGED driverVars /\ UNCHANGED storeVars
DeepNodeConnected ==
    \E node \in NodeIds :
        /\ HandleWithin(on_node_connected(SchedState, node), MaxDeepEvents)
        /\ UNCHANGED driverVars /\ UNCHANGED storeVars
DeepNodeFailed ==
    \E node \in NodeIds :
        /\ HandleWithin(on_node_failed(SchedState, node, TRUE), MaxDeepEvents)
        /\ UNCHANGED driverVars /\ UNCHANGED storeVars
DeepTimerExpired ==
    \E timer \in Timers :
        /\ HandleWithin(on_timer(SchedState, timer), MaxDeepEvents)
        /\ UNCHANGED driverVars /\ UNCHANGED storeVars

NextDeep ==
    \/ DeepAddNode
    \/ DeepAddResource
    \/ DeepTransferReady
    \/ DeepTransferFailed
    \/ DeepNodeConnected
    \/ DeepNodeFailed
    \/ DeepTimerExpired

SpecDeep == DeepInit /\ [][NextDeep]_vars

\* ---------------------------------------------------------- driven scheduler
\* The scheduler with its collaborators: a NodeConnected or NodeFailed answers
\* a StartDial (a connection can also fail later), a TransferReady or
\* TransferFailed answers a StartTransfer, and a timer fires after it was
\* registered.

Emitted(type) == {actions'[i] : i \in {j \in DOMAIN actions' : actions'[j].type = type}}

Registered(timer) ==
    Cardinality({i \in DOMAIN actions' :
        actions'[i].type = "RegisterTimer" /\ actions'[i].timer = timer})

\* The collaborators' bookkeeping after an event that answered the dials of
\* `answered`, consumed the timers of `fired` and reported a transient
\* failure of the nodes of `failed` that the scheduler knows.
Track(answered, fired, failed) ==
    /\ failures' = [n \in NodeIds |-> failures[n] + (IF n \in failed THEN 1 ELSE 0)]
    /\ dialing' = (dialing \ answered) \cup {e.node : e \in Emitted("StartDial")}
    /\ timers' = [t \in Timers |->
                     timers[t] - (IF t \in fired THEN 1 ELSE 0) + Registered(t)]
    /\ \A t \in Timers : timers'[t] <= MaxPendingTimers

HandleDriven(S) == HandleWithin(S, MaxDrivenEvents)

DrivenAddNode ==
    \E node \in NodeIds, hints \in NodeHintsSet :
        HandleDriven(add_node(SchedState, node, hints)) /\ Track({}, {}, {}) /\ UNCHANGED storeVars

DrivenAddResource ==
    \E resource \in ResourceIds, hints \in ResourceHintsSet :
        HandleDriven(add_resource(SchedState, resource, hints)) /\ Track({}, {}, {}) /\ UNCHANGED storeVars

DrivenTransferReady ==
    \E id \in DOMAIN active_transfers :
        HandleDriven(on_transfer_ready(SchedState, id)) /\ Track({}, {}, {}) /\ UNCHANGED storeVars

DrivenTransferFailed ==
    \E id \in DOMAIN active_transfers, failure \in FailureActions :
        /\ HandleDriven(on_transfer_failed(SchedState, id, failure))
        /\ Track({}, {}, IF failure = "RetryLater"
                          THEN {active_transfers[id].node} \cap DOMAIN nodes ELSE {})
        /\ UNCHANGED storeVars

DrivenNodeConnected ==
    \E node \in dialing :
        HandleDriven(on_node_connected(SchedState, node)) /\ Track({node}, {}, {}) /\ UNCHANGED storeVars

DrivenNodeFailed ==
    \E node \in dialing \cup {n \in DOMAIN nodes : is_connected(nodes[n])} :
        /\ HandleDriven(on_node_failed(SchedState, node, TRUE))
        /\ Track({node}, {}, {node} \cap DOMAIN nodes)
        /\ UNCHANGED storeVars

DrivenTimerExpired ==
    \E timer \in {t \in Timers : timers[t] > 0} :
        HandleDriven(on_timer(SchedState, timer)) /\ Track({}, {timer}, {}) /\ UNCHANGED storeVars

NextDriven ==
    \/ DrivenAddNode
    \/ DrivenAddResource
    \/ DrivenTransferReady
    \/ DrivenTransferFailed
    \/ DrivenNodeConnected
    \/ DrivenNodeFailed
    \/ DrivenTimerExpired

SpecDriven == SchedInit /\ [][NextDriven]_vars

\* ------------------------------------------------------ scheduler, progress
\* The collaborators answer and never fail: every StartDial is answered by a
\* NodeConnected, every StartTransfer by a TransferReady, and every registered
\* timer fires.  The caller asks for at most MaxLiveResources resources, each
\* with one hinted node; a resource asked for is wanted or was transferred.
ResourcesAsked ==
    Cardinality(DOMAIN resources) + transfer_id - Cardinality(DOMAIN active_transfers)

LiveAddResource ==
    \E resource \in ResourceIds \ DOMAIN resources, node \in NodeIds :
        /\ ResourcesAsked < MaxLiveResources
        /\ HandleWithin(add_resource(SchedState, resource,
                            [nodes |-> <<node>>, skip_nodes |-> {}, groups |-> {}]),
                        MaxLiveEvents)
        /\ Track({}, {}, {})
        /\ UNCHANGED storeVars

LiveNodeConnected ==
    \E node \in dialing :
        /\ HandleWithin(on_node_connected(SchedState, node), MaxLiveEvents)
        /\ Track({node}, {}, {})
        /\ UNCHANGED storeVars

LiveTransferReady ==
    \E id \in DOMAIN active_transfers :
        /\ HandleWithin(on_transfer_ready(SchedState, id), MaxLiveEvents)
        /\ Track({}, {}, {})
        /\ UNCHANGED storeVars

LiveTimerExpired ==
    \E timer \in {t \in Timers : timers[t] > 0} :
        /\ HandleWithin(on_timer(SchedState, timer), MaxLiveEvents)
        /\ Track({}, {timer}, {})
        /\ UNCHANGED storeVars

NextLive ==
    \/ LiveAddResource
    \/ LiveNodeConnected
    \/ LiveTransferReady
    \/ LiveTimerExpired

SpecLive ==
    /\ SchedInit
    /\ [][NextLive]_vars
    /\ WF_vars(LiveNodeConnected)
    /\ WF_vars(LiveTransferReady)
    /\ WF_vars(LiveTimerExpired)

\* ---------------------------------------------------------- scheduler claims

ActiveCount == Cardinality(DOMAIN active_transfers)

\* C1: in every reachable state the number of entries of active_transfers is
\* at most limits.max_concurrent_requests.
C1_GlobalRequestCap == ActiveCount <= limits.max_concurrent_requests

\* C2: no two entries of active_transfers name the same resource.
C2_OneTransferPerResource ==
    \A t1, t2 \in DOMAIN active_transfers :
        active_transfers[t1].resource = active_transfers[t2].resource => t1 = t2

\* A resource is being transferred from a node that knows it both directly
\* and through a group, and a resource completed earlier is transferred again.
C2_Witness ==
    \/ \E t \in DOMAIN active_transfers :
          LET r == active_transfers[t].resource
              n == active_transfers[t].node
          IN /\ n \in DOMAIN nodes
             /\ r \in nodes[n].resources
             /\ \E g \in nodes[n].groups \cap DOMAIN groups : r \in groups[g].resources
    \/ /\ transfer_id = 2
       /\ \E r \in DOMAIN resources : resources[r].active_transfer = {1}
       /\ DOMAIN active_transfers = {1}

C4_PerNodeRequestCap ==
    \A n \in DOMAIN nodes :
        Cardinality(nodes[n].active_transfers) <= limits.max_concurrent_requests_per_node

\* A connected node is at its cap while it has another resource to start.
C4_Witness ==
    \E n \in DOMAIN nodes :
        /\ is_connected(nodes[n])
        /\ Cardinality(nodes[n].active_transfers) = limits.max_concurrent_requests_per_node
        /\ node_is_needed(SchedState, n, nodes[n])

\* The step handles TransferFailed{id, failure}.
IsTransferFailed(id, failure) ==
    \E s \in on_transfer_failed(SchedState, id, failure) :
        /\ groups' = s.groups
        /\ resources' = s.resources
        /\ nodes' = s.nodes
        /\ active_transfers' = s.active_transfers
        /\ transfer_id' = s.transfer_id
        /\ actions' = s.actions
        /\ events' = events + 1

\* C10: when a transfer on a Connected node N fails with RetryLater, N moves
\* to Pending{RetryTimeout} with remaining_retries = INITIAL_RETRY_COUNT - 1
\* and RegisterTimer(_, RetryNode(N)) is emitted; N is not marked failed and
\* no DropConnection(N) is emitted.
C10_FirstRetryLater ==
    [][\A id \in DOMAIN active_transfers :
          LET n == active_transfers[id].node IN
          (/\ n \in DOMAIN nodes
           /\ is_connected(nodes[n])
           /\ IsTransferFailed(id, "RetryLater"))
          => /\ nodes'[n].state = Pending("RetryTimeout", INITIAL_RETRY_COUNT - 1)
             /\ RegisterTimer(RetryDelay, TimerRetryNode(n)) \in Elems(actions')
             /\ DropConnection(n) \notin Elems(actions')]_vars

\* C11: a node becomes Disconnected{failed: true} by a transient failure
\* (NodeFailed, or TransferFailed with RetryLater) only with the failure that
\* uses up its budget, the INITIAL_RETRY_COUNT-th one.
C11_RetryBudget ==
    [][\A n \in DOMAIN nodes :
          (/\ failures'[n] = failures[n] + 1
           /\ nodes[n].state # Disconnected(TRUE)
           /\ nodes'[n].state = Disconnected(TRUE))
          => failures'[n] = INITIAL_RETRY_COUNT]_vars

\* C12: a node that is Disconnected{failed: true} stays so, and no StartDial
\* for it is emitted, whatever event comes next.
C12_FailedIsFinal ==
    [][\A n \in DOMAIN nodes :
          nodes[n].state = Disconnected(TRUE)
          => /\ nodes'[n].state = Disconnected(TRUE)
             /\ StartDial(n) \notin Elems(actions')]_vars

\* ------------------------------------------------------------- store claims

ByKeyId(id) == <<id[1], id[3], id[2]>>

\* C5: after any sequence of put, remove, remove_prefix_filtered and
\* remove_replica, (ns, author, key) is a row of the records table if and
\* only if (ns, key, author) is a row of the records-by-key table.
C5_RecordsByKeyBijection ==
    /\ \A id \in DOMAIN records_table : ByKeyId(id) \in by_key_table
    /\ \A k \in by_key_table : <<k[1], k[3], k[2]>> \in DOMAIN records_table

\* C6: at any time at most one Replica handle that open_replica returned and
\* that is not closed yet exists per namespace, under every interleaving of
\* the check of the open set and the insertion into it.
C6_OneHandlePerNamespace == \A ns \in NamespaceIds : handles[ns] <= 1

\* How often an entry occurs in a scan.
Occurrences(scan, e) == Cardinality({i \in 1..Len(scan) : scan[i] = e})

\* C7 as stated: right after put(E), get_one(E.namespace, E.author, E.key)
\* returns E and the scan of the namespace contains E exactly once, for every
\* E, the entries with the empty-content hash included.
C7_GetOneReturnsEveryPut ==
    last_op.op = "put" =>
        LET e == last_op.entry IN
        /\ get_one(StoreState, e.id[1], e.id[2], e.id[3]) = e
        /\ Occurrences(all(StoreState, e.id[1]), e) = 1

\* C7 as the store does it: right after put(E) the scan of the namespace
\* contains E exactly once; get_one returns E (timestamp, hash, length and
\* signatures) when the content hash of E is not the empty-content hash, and
\* returns no entry when it is.
C7_GetOneReturnsNonEmptyPut ==
    last_op.op = "put" =>
        LET e == last_op.entry IN
        /\ get_one(StoreState, e.id[1], e.id[2], e.id[3]) = IF is_empty(e) THEN None ELSE e
        /\ Occurrences(all(StoreState, e.id[1]), e) = 1

\* An empty entry was just put next to another record of the namespace.
C7_Witness ==
    /\ last_op.op = "put"
    /\ is_empty(last_op.entry)
    /\ Len(all(StoreState, last_op.entry.id[1])) >= 2
    /\ get_one(StoreState, last_op.entry.id[1], last_op.entry.id[2], last_op.entry.id[3]) = None

\* The (namespace, author) pairs with a record, and the records of one.
RecordsOf(ns, author) == {id \in DOMAIN records_table : id[1] = ns /\ id[2] = author}
Greatest(ns, author) ==
    {id \in RecordsOf(ns, author) :
        \A other \in RecordsOf(ns, author) : records_table[other][1] <= records_table[id][1]}

\* C8 as stated: for every (namespace, author) with a record, the latest
\* table has a row, and its (timestamp, key) is that of the stored record of
\* the author with the greatest timestamp.
C8_LatestIsGreatestStored ==
    \A ns \in NamespaceIds, author \in AuthorIds :
        RecordsOf(ns, author) # {} =>
            /\ <<ns, author>> \in DOMAIN latest_table
            /\ \E id \in Greatest(ns, author) :
                latest_table[<<ns, author>>] = <<records_table[id][1], id[3]>>

\* C8 as the store does it: for every (namespace, author) with a record, the
\* latest table has a row, and its (timestamp, key) is that of the entry the
\* author put last in the namespace.
C8_LatestIsLastPut ==
    \A ns \in NamespaceIds, author \in AuthorIds :
        RecordsOf(ns, author) # {} =>
            /\ <<ns, author>> \in DOMAIN latest_table
            /\ <<ns, author>> \in DOMAIN last_put
            /\ latest_table[<<ns, author>>] =
                <<last_put[<<ns, author>>].record.timestamp, last_put[<<ns, author>>].id[3]>>

\* An author has records, and the row of the latest table is older than the
\* newest of them.
C8_Witness ==
    \E ns \in NamespaceIds, author \in AuthorIds :
        /\ RecordsOf(ns, author) # {}
        /\ <<ns, author>> \in DOMAIN latest_table
        /\ \E id \in RecordsOf(ns, author) :
            latest_table[<<ns, author>>][1] < records_table[id][1]

\* C9: a get_many with limit = Some(L) yields at most L entries, for every
\* L >= 0 and every index plan.
C9_LimitBoundsYield ==
    query_iter.active =>
        \A limit \in query_iter.query.limit : Len(yielded) <= limit

\* The step is the store operation `op` on the namespace ns.
IsStoreOp(op, ns) ==
    /\ store_ops' = store_ops + 1
    /\ last_op'.op = op
    /\ last_op'.namespace = ns
dbTables == <<records_table, by_key_table, latest_table, namespaces_table>>

\* C13: open_replica(ns) returns AlreadyOpen when ns is in the open set and
\* NotFound when ns has no row in the namespaces table; an error leaves the
\* open set and the tables as they were; the open_replica(ns) that follows
\* close_replica(ns) succeeds.
C13_OpenReplicaErrors ==
    [][\A ns \in NamespaceIds :
          IsStoreOp("open_replica", ns) =>
            /\ ns \in open_replicas => last_op'.result = "AlreadyOpen"
            /\ (ns \notin open_replicas /\ ns \notin namespaces_table)
                    => last_op'.result = "NotFound"
            /\ last_op'.result \in {"AlreadyOpen", "NotFound"}
                    => UNCHANGED <<open_replicas, dbTables, handles>>
            /\ last_op = [op |-> "close_replica", namespace |-> ns]
                    => (last_op'.result = "Ok" /\ ns \in open_replicas')]_vars

\* A namespace with records was opened again right after its close.
C13_Witness ==
    /\ last_op.op = "open_replica"
    /\ last_op.after_close
    /\ last_op.result = "Ok"
    /\ \E id \in DOMAIN records_table : id[1] = last_op.namespace

\* C14: remove_replica(ns) while ns is open returns an error and deletes no
\* row of any table.
C14_RemoveOpenReplicaFails ==
    [][\A ns \in NamespaceIds :
          (IsStoreOp("remove_replica", ns) /\ ns \in open_replicas) =>
            /\ last_op'.result = "Err"
            /\ UNCHANGED <<dbTables, open_replicas>>]_vars

\* remove_replica just failed on an open namespace that has records.
C14_Witness ==
    /\ last_op.op = "remove_replica"
    /\ last_op.result = "Err"
    /\ last_op.namespace \in open_replicas
    /\ last_op.namespace \in namespaces_table
    /\ \E id \in DOMAIN records_table : id[1] = last_op.namespace

\* C15: after a successful remove_replica(ns) no row of ns is left in the
\* namespaces table, the records table, records-by-key and latest-per-author
\* (get_latest_for_each_author(ns) is empty); the rows of the other
\* namespaces are as before.
C15_RemoveReplicaLeavesNothing ==
    [][\A ns \in NamespaceIds :
          (IsStoreOp("remove_replica", ns) /\ last_op'.result = "Ok") =>
            /\ ns \notin namespaces_table'
            /\ \A id \in DOMAIN records_table' : id[1] # ns
            /\ \A k \in by_key_table' : k[1] # ns
            /\ get_latest_for_each_author(StoreState', ns) = <<>>
            /\ \A other \in NamespaceIds \ {ns} :
                /\ (other \in namespaces_table') = (other \in namespaces_table)
                /\ all(StoreState', other) = all(StoreState, other)
                /\ get_latest_for_each_author(StoreState', other)
                        = get_latest_for_each_author(StoreState, other)]_vars

\* C20: after any sequence of register_useful_peer calls every namespace has
\* at most PEERS_PER_DOC_CACHE_SIZE entries in the sync-peers table, and a
\* call for one namespace leaves the entries of the other namespaces alone.
C20_PeersWithinCapacity ==
    [][/\ \A ns \in NamespaceIds : Cardinality(peers_table'[ns]) <= PEERS_PER_DOC_CACHE_SIZE
       /\ \A ns \in NamespaceIds :
            peers_table'[ns] # peers_table[ns]
            => \A other \in NamespaceIds \ {ns} : peers_table'[other] = peers_table[other]]_vars

\* A new peer has been registered for a full namespace, which is full again
\* after the eviction, while the other namespace has entries.
C20_Witness ==
    /\ last_op.op = "register_useful_peer"
    /\ last_op.len = PEERS_PER_DOC_CACHE_SIZE
    /\ ~last_op.known
    /\ Cardinality(peers_table[last_op.namespace]) = PEERS_PER_DOC_CACHE_SIZE
    /\ \E other \in NamespaceIds \ {last_op.namespace} : peers_table[other] # {}

\* The rows of the records table with the given ids, as entries.
StoredEntries(ids) ==
    {into_entry(id, records_table[id]) : id \in ids \cap DOMAIN records_table}
NoEntryTwice(s) == Cardinality(Elems(s)) = Len(s)
\* s is in ascending id order between its positions from and to.
AscendingIn(s, from, to) ==
    \A i \in from..to, j \in from..to : i < j => RecordsIdLess(s[i].id, s[j].id)

\* C16: for x > y get_range yields the entries of the namespace before y and
\* then those from x on, each part in ascending order and no entry twice;
\* for x = y it yields what all() yields.
C16_SplitRange ==
    (last_op.op = "get_range" /\ ~RecordsIdLess(last_op.x, last_op.y))
    => LET s == last_op.result
           ns == last_op.namespace
           low == StoredEntries({id \in RecordsIds : id[1] = ns /\ RecordsIdLess(id, last_op.y)})
           high == StoredEntries({id \in RecordsIds : id[1] = ns /\ ~RecordsIdLess(id, last_op.x)})
       IN IF last_op.x = last_op.y
          THEN s = all(StoreState, ns)
          ELSE /\ NoEntryTwice(s)
               /\ Len(s) = Cardinality(low) + Cardinality(high)
               /\ {s[i] : i \in 1..Cardinality(low)} = low
               /\ {s[i] : i \in (Cardinality(low) + 1)..Len(s)} = high
               /\ AscendingIn(s, 1, Cardinality(low))
               /\ AscendingIn(s, Cardinality(low) + 1, Len(s))

\* A split range that has yielded an entry in each of its parts and has left
\* out an entry of the namespace that lies between them.
C16_Witness ==
    /\ last_op.op = "get_range"
    /\ RecordsIdLess(last_op.y, last_op.x)
    /\ \E i \in DOMAIN last_op.result : RecordsIdLess(last_op.result[i].id, last_op.y)
    /\ \E i \in DOMAIN last_op.result : ~RecordsIdLess(last_op.result[i].id, last_op.x)
    /\ \E id \in DOMAIN records_table :
         /\ id[1] = last_op.namespace
         /\ \A i \in DOMAIN last_op.result : last_op.result[i].id # id

\* C17: for x < y get_range yields the stored entries e with x <= e.id < y and
\* no others, in ascending id order.
C17_RegularRange ==
    (last_op.op = "get_range" /\ RecordsIdLess(last_op.x, last_op.y))
    => LET s == last_op.result IN
       /\ Elems(s) = StoredEntries({id \in RecordsIds :
                                      /\ ~RecordsIdLess(id, last_op.x)
                                      /\ RecordsIdLess(id, last_op.y)})
       /\ NoEntryTwice(s)
       /\ AscendingIn(s, 1, Len(s))

\* A regular range that has yielded two entries while entries are stored at
\* its end y and before its start.
C17_Witness ==
    /\ last_op.op = "get_range"
    /\ RecordsIdLess(last_op.x, last_op.y)
    /\ Len(last_op.result) >= 2
    /\ last_op.result[1].id = last_op.x
    /\ last_op.y \in DOMAIN records_table

\* The ids a range covers in a namespace: x <= id < y for x < y, the
\* namespace for x = y, and the namespace without y <= id < x for x > y.
InRange(ns, x, y, id) ==
    IF x = y THEN id[1] = ns
    ELSE IF RecordsIdLess(x, y) THEN ~RecordsIdLess(id, x) /\ RecordsIdLess(id, y)
    ELSE id[1] = ns /\ (RecordsIdLess(id, y) \/ ~RecordsIdLess(id, x))

\* C18: get_fingerprint of a range is the XOR of the fingerprints of the
\* entries get_range yields for it, the empty fingerprint when it yields
\* none, and is determined by the stored entries alone, whatever the order
\* they were put in.
C18_FingerprintOfRange ==
    last_op.op = "get_fingerprint"
    => LET elements == get_range(StoreState, last_op.namespace, last_op.x, last_op.y)
           stored == StoredEntries({id \in RecordsIds :
                        InRange(last_op.namespace, last_op.x, last_op.y, id)})
       IN /\ last_op.result = UNION {as_fingerprint(e) : e \in Elems(elements)}
          /\ elements = <<>> => last_op.result = Fingerprint_empty
          /\ last_op.result = UNION {as_fingerprint(e) : e \in stored}

\* The fingerprint of a split range with two entries, one in each part, that
\* leaves out a stored entry of the namespace.
C18_Witness ==
    /\ last_op.op = "get_fingerprint"
    /\ RecordsIdLess(last_op.y, last_op.x)
    /\ \E e \in SignedEntries :
         /\ RecordsIdLess(e.id, last_op.y)
         /\ as_fingerprint(e) \subseteq last_op.result
    /\ \E e \in SignedEntries :
         /\ ~RecordsIdLess(e.id, last_op.x)
         /\ as_fingerprint(e) \subseteq last_op.result
    /\ \E id \in DOMAIN records_table :
         /\ id[1] = last_op.namespace
         /\ ~(as_fingerprint(into_entry(id, records_table[id])) \subseteq last_op.result)

RECURSIVE MostRecentFirst(_)
MostRecentFirst(log) ==
    IF log = <<>> THEN <<>>
    ELSE LET peer == log[Len(log)][2]
             before == SelectSeq(SubSeq(log, 1, Len(log) - 1), LAMBDA e : e[2] # peer)
         IN <<peer>> \o MostRecentFirst(before)

\* C21: under strictly increasing timestamps get_sync_peers of a namespace is
\* the list of the distinct peers registered for it, the most recently
\* registered first, cut to PEERS_PER_DOC_CACHE_SIZE peers; it is None when no
\* peer was registered.
C21_PeersAreLru ==
    \A ns \in NamespaceIds :
        LET recent == MostRecentFirst(registered[ns])
            kept == Min(PEERS_PER_DOC_CACHE_SIZE, Len(recent))
        IN IF registered[ns] = <<>>
           THEN get_sync_peers(peers_table, ns) = None
           ELSE get_sync_peers(peers_table, ns) = SubSeq(recent, 1, kept)

\* A full namespace where a peer was evicted and a present peer, not the
\* oldest, was registered again last.
C21_Witness ==
    \E ns \in NamespaceIds :
        LET log == registered[ns] IN
        /\ Len(log) > PEERS_PER_DOC_CACHE_SIZE + 1
        /\ Len(MostRecentFirst(log)) > PEERS_PER_DOC_CACHE_SIZE
        /\ \E i \in 1..(Len(log) - 1) : log[i][2] = log[Len(log)][2]
        /\ last_op.namespace = ns /\ last_op.known
        /\ Cardinality(peers_table[ns]) = PEERS_PER_DOC_CACHE_SIZE

\* C22: the entries a get_range call yields for a split range are those of
\* one state of the database: one of the states committed between the
\* creation of its first iterator and that of its second.
C22_RangeFromOneSnapshot ==
    range_reader.pc = "chained"
    => \E table \in range_reader.seen :
         range_reader.result =
             get_range([StoreState EXCEPT !.records_table = table],
                       range_reader.namespace, range_reader.x, range_reader.y)

\* ---------------------------------------------------- scheduler claims, events

\* The step handles an event whose handler can end in the states of S.
Handled(S) ==
    /\ events' = events + 1
    /\ \E s \in S :
        /\ groups' = s.groups
        /\ resources' = s.resources
        /\ nodes' = s.nodes
        /\ active_transfers' = s.active_transfers
        /\ transfer_id' = s.transfer_id
        /\ actions' = s.actions

\* State::new: nothing is known.
FreshState ==
    [groups |-> <<>>, resources |-> <<>>, nodes |-> <<>>,
     active_transfers |-> <<>>, transfer_id |-> 0, actions |-> <<>>]
\* The states of S after the caller has drained their actions.
Drained(S) == {[s EXCEPT !.actions = <<>>] : s \in S}
OnlyNode(node) == [nodes |-> <<node>>, skip_nodes |-> {}, groups |-> {}]
\* The happy path of resource r and node n, event by event.
AfterAddResource(r, n) == add_resource(FreshState, r, OnlyNode(n))
AfterNodeConnected(r, n) ==
    UNION {on_node_connected(s, n) : s \in Drained(AfterAddResource(r, n))}
AfterTransferReady(r, n) ==
    UNION {on_transfer_ready(s, FreshState.transfer_id) :
              s \in Drained(AfterNodeConnected(r, n))}

\* Only resource r and node n are known: what the states of the happy path
\* have in common.
OnlyKnown(r, n) == DOMAIN resources = {r} /\ DOMAIN nodes = {n} /\ DOMAIN groups = {}

\* C23: on a fresh scheduler AddResource{r, nodes: [n]} emits StartDial(n);
\* the NodeConnected{n} after it emits StartTransfer of r on n; the
\* TransferReady after that removes r from the resources and emits
\* RegisterTimer(IDLE_PEER_TIMEOUT, DropConnection(n)); and a resource that is
\* not among the resources is started by no event but an AddResource of it.
C23_HappyPath ==
    [][\A r \in ResourceIds :
          /\ \A n \in NodeIds :
               /\ (/\ SchedState = FreshState
                   /\ Handled(add_resource(SchedState, r, OnlyNode(n))))
                  => StartDial(n) \in Elems(actions')
               /\ (/\ OnlyKnown(r, n)
                   /\ SchedState \in Drained(AfterAddResource(r, n))
                   /\ Handled(on_node_connected(SchedState, n)))
                  => \E id \in TransferIds : StartTransfer(id, r, n) \in Elems(actions')
               /\ (/\ OnlyKnown(r, n)
                   /\ SchedState \in Drained(AfterNodeConnected(r, n))
                   /\ \E id \in DOMAIN active_transfers :
                        Handled(on_transfer_ready(SchedState, id)))
                  => /\ r \notin DOMAIN resources'
                     /\ RegisterTimer(IDLE_PEER_TIMEOUT, TimerDropConnection(n))
                            \in Elems(actions')
          /\ (/\ r \notin DOMAIN resources
              /\ \E i \in DOMAIN actions' :
                    actions'[i].type = "StartTransfer" /\ actions'[i].resource = r)
             => \E hints \in ResourceHintsSet : Handled(add_resource(SchedState, r, hints))]_vars

\* The three events of the happy path have been handled, and nothing else.
C23_Witness ==
    /\ events = Cardinality({"AddResource", "NodeConnected", "TransferReady"})
    /\ \E r \in ResourceIds, n \in NodeIds :
         [SchedState EXCEPT !.actions = actions] \in AfterTransferReady(r, n)

\* The scheduler's state is as it was and no OutEvent has been pushed.
NoOp ==
    /\ UNCHANGED <<groups, resources, nodes, limits, active_transfers, transfer_id>>
    /\ actions' = <<>>

\* C24: a TransferReady or TransferFailed with an id that is not in
\* active_transfers, and a NodeConnected, NodeFailed or TimerExpired that names
\* a node the scheduler does not know, change nothing and emit nothing.
C24_InvalidEventsAreNoOps ==
    [][/\ \A id \in TransferIds \ DOMAIN active_transfers :
            /\ Handled(on_transfer_ready(SchedState, id)) => NoOp
            /\ \A failure \in FailureActions :
                 Handled(on_transfer_failed(SchedState, id, failure)) => NoOp
       /\ \A node \in NodeIds \ DOMAIN nodes :
            /\ Handled(on_node_connected(SchedState, node)) => NoOp
            /\ Handled(on_node_failed(SchedState, node, TRUE)) => NoOp
            /\ Handled(on_timer(SchedState, TimerRetryNode(node))) => NoOp
            /\ Handled(on_timer(SchedState, TimerDropConnection(node))) => NoOp]_vars

\* Two events have been handled by a scheduler that still knows nothing.
C24_Witness ==
    /\ events > 1
    /\ SchedState = FreshState
    /\ actions = <<>>

IdsOf(s) == {s[i].id : i \in DOMAIN s}
WithContent(s) == SelectSeq(s, LAMBDA e : ~is_empty(e))
EntryUnder(s, id) == IF id \in IdsOf(s) THEN s[CHOOSE i \in DOMAIN s : s[i].id = id] ELSE None
C27_MigrationRestoresLatest ==
    last_op.op = "reopen" =>
        /\ (last_op.table_deleted /\ DOMAIN last_op.before.records_table # {})
            => \A ns \in NamespaceIds :
                    get_latest_for_each_author(StoreState, ns)
                        = get_latest_for_each_author(last_op.before, ns)
        /\ (/\ ~last_op.table_deleted
            /\ DOMAIN last_op.before.latest_table # {}
            /\ last_op.before.by_key_table # {})
            => /\ records_table = last_op.before.records_table
               /\ by_key_table = last_op.before.by_key_table
               /\ latest_table = last_op.before.latest_table
               /\ namespaces_table = last_op.before.namespaces_table


\* C28: after each handled event every Connected node without an active
\* transfer is marked in disconnect timeout and has a pending
\* DropConnection timer.
C28_IdleNodesAwaitDrop ==
    \A node \in DOMAIN nodes :
        (is_connected(nodes[node]) /\ nodes[node].active_transfers = {})
            => /\ nodes[node].in_disconnect_timeout
               /\ timers[TimerDropConnection(node)] > 0


\* C29: when TimerExpired{DropConnection(n)} is handled for a node n that is
\* marked in disconnect timeout and has no active transfer, n becomes
\* Disconnected{failed: false} and DropConnection(n) is the one OutEvent;
\* for any other node n the scheduler knows, its connection state stays as it
\* was and no OutEvent is emitted.
C29_IdleDrop ==
    [][\A n \in DOMAIN nodes :
          Handled(on_timer(SchedState, TimerDropConnection(n)))
            => IF nodes[n].in_disconnect_timeout /\ nodes[n].active_transfers = {}
               THEN /\ nodes'[n].state = Disconnected(FALSE)
                    /\ actions' = <<DropConnection(n)>>
               ELSE /\ nodes'[n].state = nodes[n].state
                    /\ actions' = <<>>]_vars

\* The idle timer of a node has fired and dropped its connection.
C29_Witness ==
    \E n \in DOMAIN nodes :
        /\ nodes[n].state = Disconnected(FALSE)
        /\ ~nodes[n].in_disconnect_timeout
        /\ nodes[n].active_transfers = {}
        /\ actions = <<DropConnection(n)>>


\* The node has been filled: it is not connected, or it is at its capacity or
\* the scheduler is, or none of its resources can be started on it.
Filled(s, node) ==
    \/ ~is_connected(s.nodes[node])
    \/ node_at_request_capacity(Cardinality(s.nodes[node].active_transfers))
    \/ at_requests_capacity(Cardinality(DOMAIN s.active_transfers))
    \/ \A resource \in node_resource_iter(s, s.nodes[node]) :
            ~can_start_transfer(s.resources[resource], node)

\* C30: when the transfer id of resource r on node n fails with NotFound or
\* AbortRequest, the transfer is gone, r has no active transfer, n is among
\* the skip_nodes of r, the connection state of n is as it was and n has been
\* filled; and no event starts a transfer of a resource on a node that is
\* among the skip_nodes of the resource before and after the event.
C30_SkippedAfterFailure ==
    [][/\ \A id \in DOMAIN active_transfers, action \in {"NotFound", "AbortRequest"} :
            Handled(on_transfer_failed(SchedState, id, action))
              => LET r == active_transfers[id].resource
                     n == active_transfers[id].node
                 IN /\ id \notin DOMAIN active_transfers'
                    /\ resources'[r].active_transfer = {}
                    /\ n \in resources'[r].skip_nodes
                    /\ nodes'[n].state = nodes[n].state
                    /\ Filled(SchedState', n)
       /\ \A i \in DOMAIN actions' :
            (/\ actions'[i].type = "StartTransfer"
             /\ actions'[i].resource \in DOMAIN resources)
              => ~(/\ actions'[i].node \in resources[actions'[i].resource].skip_nodes
                   /\ actions'[i].node \in resources'[actions'[i].resource].skip_nodes)]_vars

\* The first transfer of the one resource failed on a node that is still
\* connected and is skipped, and the resource has been started on another.
C30_Witness ==
    \E r \in DOMAIN resources, n \in DOMAIN nodes, m \in DOMAIN nodes :
        /\ DOMAIN resources = {r}
        /\ m # n
        /\ is_connected(nodes[n])
        /\ n \in resources[r].skip_nodes
        /\ transfer_id = Cardinality({n, m})
        /\ \E id \in resources[r].active_transfer :
              StartTransfer(id, r, m) \in Elems(actions)


\* The state of the node before the event; a node that is not known yet
\* starts as NodeInfo::default().
StateBefore(n) == IF n \in DOMAIN nodes THEN nodes[n].state ELSE DefaultNodeInfo.state
\* After the event a wanted resource that n knows, directly or through one of
\* its groups, has no active transfer and does not skip n.
NeededAfter(n) ==
    \E r \in DOMAIN resources' :
        /\ \/ r \in nodes'[n].resources
           \/ \E g \in nodes'[n].groups \cap DOMAIN groups' : r \in groups'[g].resources
        /\ resources'[r].active_transfer = {}
        /\ n \notin resources'[r].skip_nodes
\* The event dialed n.
Dialed(n) ==
    /\ StartDial(n) \in Elems(actions')
    /\ nodes'[n].state = Pending("Connecting", INITIAL_RETRY_COUNT)
DialedOnDemand(n) ==
    /\ Dialed(n) <=>
          /\ StateBefore(n) = Disconnected(FALSE)
          /\ NeededAfter(n)
          /\ Cardinality({m \in DOMAIN nodes : nodes[m].state.kind \in {"Connected", "Connecting"}})
                < limits.max_open_connections
    /\ StateBefore(n).kind \in {"Connecting", "RetryTimeout"} => actions' = <<>>

\* What every AddNode and AddResource that names n leaves behind: n is known,
\* and nothing that was known or running is gone.
AddsOnly(n) ==
    /\ n \in DOMAIN nodes'
    /\ DOMAIN nodes \subseteq DOMAIN nodes'
    /\ DOMAIN resources \subseteq DOMAIN resources'
    /\ DOMAIN active_transfers \subseteq DOMAIN active_transfers'
    /\ \A m \in DOMAIN nodes \ {n} : nodes'[m].state = nodes[m].state

\* C31: an AddNode of n, or an AddResource that hints at n, emits
\* StartDial(n) and leaves n Pending{Connecting} with INITIAL_RETRY_COUNT
\* retries if and only if n was Disconnected{failed: false}, a wanted resource
\* that n knows directly or through a group has no active transfer and does
\* not skip n, and fewer than max_open_connections nodes were Connected or
\* Connecting; for a Pending n nothing is emitted.
C31_DemandDrivenDialing ==
    [][\A n \in NodeIds :
          AddsOnly(n) =>
          /\ \A hints \in NodeHintsSet :
                Handled(add_node(SchedState, n, hints)) => DialedOnDemand(n)
          /\ \A r \in ResourceIds, hints \in ResourceHintsSet :
                (hints.nodes = <<n>> /\ Handled(add_resource(SchedState, r, hints)))
                    => DialedOnDemand(n)]_vars

\* A node was dialed for a resource while another node is connected or
\* being connected to.
C31_Witness ==
    \E n \in DOMAIN nodes, m \in DOMAIN nodes :
        /\ n # m
        /\ nodes[m].state.kind \in {"Connected", "Connecting"}
        /\ nodes[n].state = Pending("Connecting", INITIAL_RETRY_COUNT)
        /\ actions = <<StartDial(n)>>


\* C32: every StartTransfer of a resource r on a node n that an event emits
\* leaves n Connected, r wanted and known to n directly or through one of
\* the groups of n, and n outside the skip_nodes of r.
C32_StartedOnConnectedNodes ==
    \A i \in DOMAIN actions :
        actions[i].type = "StartTransfer" =>
            LET r == actions[i].resource
                n == actions[i].node
            IN /\ n \in DOMAIN nodes
               /\ nodes[n].state.kind = "Connected"
               /\ r \in DOMAIN resources
               /\ \/ r \in nodes[n].resources
                  \/ \E g \in nodes[n].groups \cap DOMAIN groups : r \in groups[g].resources
               /\ n \notin resources[r].skip_nodes

\* A transfer was started on a node that knows the resource through a group
\* only, while another node is not connected.
C32_Witness ==
    \E i \in DOMAIN actions, m \in DOMAIN nodes :
        /\ actions[i].type = "StartTransfer"
        /\ actions[i].resource \notin nodes[actions[i].node].resources
        /\ nodes[m].state.kind # "Connected"


\* C33: the latest table has a row for exactly the (namespace, author) pairs
\* that have put an entry, and the row is the (timestamp, key) of the entry
\* the author put last in the namespace, whatever was put before and whatever
\* is still stored; remove and remove_prefix_filtered leave the table as it
\* was.
C33_LastWriteSeen ==
    [][/\ DOMAIN latest_table' = DOMAIN last_put'
       /\ \A k \in DOMAIN last_put' :
            latest_table'[k] = <<last_put'[k].record.timestamp, last_put'[k].id[3]>>
       /\ last_op'.op \in {"remove", "remove_prefix_filtered"}
            => latest_table' = latest_table]_vars

\* A remove_prefix_filtered has taken the last record of an author whose row
\* is still in the latest table.
C33_Witness ==
    /\ last_op.op = "remove_prefix_filtered"
    /\ last_op.result > 0
    /\ \E k \in DOMAIN latest_table : RecordsOf(k[1], k[2]) = {}


C35_ReverseIndices ==
    [][/\ \A n \in DOMAIN nodes', r \in DOMAIN resources' :
            r \in nodes'[n].resources <=> n \in resources'[r].nodes
       /\ \A n \in DOMAIN nodes', g \in GroupIds :
            g \in nodes'[n].groups <=> (g \in DOMAIN groups' /\ n \in groups'[g].nodes)
       /\ \A r \in DOMAIN resources', g \in GroupIds :
            g \in resources'[r].groups <=> (g \in DOMAIN groups' /\ r \in groups'[g].resources)
       /\ \A id \in DOMAIN active_transfers :
            Handled(on_transfer_ready(SchedState, id))
              => /\ \A n \in DOMAIN nodes' :
                       active_transfers[id].resource \notin nodes'[n].resources
                 /\ \A g \in DOMAIN groups' :
                       active_transfers[id].resource \notin groups'[g].resources
       /\ \A n \in DOMAIN nodes :
            (/\ Handled(on_node_failed(SchedState, n, TRUE))
             /\ nodes'[n].state = Disconnected(TRUE))
              => \A r \in DOMAIN resources' : n \notin resources'[r].nodes]_vars


\* The sum of the numbers of active transfers of the nodes of S.
RECURSIVE NodeTransfers(_)
NodeTransfers(S) ==
    IF S = {} THEN 0
    ELSE LET n == CHOOSE m \in S : TRUE
         IN Cardinality(nodes[n].active_transfers) + NodeTransfers(S \ {n})

\* C36: a transfer t of resource r on node n is in active_transfers exactly
\* when t is in the active_transfers of n and the active_transfer of r is t;
\* the number of active transfers is the sum of the numbers of the nodes, and
\* no node and no resource names a transfer that is not active.
C36_TransferBookkeeping ==
    /\ \A t \in DOMAIN active_transfers :
          /\ active_transfers[t].id = t
          /\ active_transfers[t].node \in DOMAIN nodes
          /\ t \in nodes[active_transfers[t].node].active_transfers
          /\ active_transfers[t].resource \in DOMAIN resources
          /\ resources[active_transfers[t].resource].active_transfer = {t}
    /\ \A n \in DOMAIN nodes : \A t \in nodes[n].active_transfers :
          t \in DOMAIN active_transfers /\ active_transfers[t].node = n
    /\ \A r \in DOMAIN resources : \A t \in resources[r].active_transfer :
          t \in DOMAIN active_transfers /\ active_transfers[t].resource = r
    /\ Cardinality(DOMAIN active_transfers) = NodeTransfers(DOMAIN nodes)

\* One transfer has ended and another is running on a node that is no longer
\* connected.
C36_Witness ==
    \E t \in DOMAIN active_transfers :
        /\ t > 0
        /\ (t - 1) \notin DOMAIN active_transfers
        /\ nodes[active_transfers[t].node].state.kind # "Connected"


\* C37: when every dial, transfer and timer is answered, a wanted resource
\* with a hinted node that has not failed is eventually being transferred.
C37_WantedResourcesStart ==
    \A r \in ResourceIds :
        (/\ r \in DOMAIN resources
         /\ \E n \in resources[r].nodes : ~nodes[n].state.failed)
        ~> (r \in DOMAIN resources /\ resources[r].active_transfer # {})


\* C38: in every store state a latest-per-key query with no filter, empty
\* entries included, no offset and no limit yields exactly one entry for each
\* key that has a record in the namespace.
LatestPerKeyAll ==
    [author_filter |-> [kind |-> "Any"], key_filter |-> [kind |-> "Any"],
     sort_direction |-> "Asc", offset |-> 0, limit |-> {}, include_empty |-> TRUE]
get_many_latest_per_key(st, namespace) ==
    collect(st, QueryIterator_new(st, namespace, LatestPerKeyAll,
                    [kind |-> "KeyAuthor", range |-> [kind |-> "Any"],
                     author_filter |-> [kind |-> "Any"], latest_per_key |-> TRUE]))
KeysWithRecord(namespace) == {id[3] : id \in {x \in DOMAIN records_table : x[1] = namespace}}
C38_LatestPerKeyComplete ==
    \A ns \in NamespaceIds :
        LET result == get_many_latest_per_key(StoreState, ns) IN
        /\ Len(result) = Cardinality(KeysWithRecord(ns))
        /\ {result[i].id[3] : i \in 1..Len(result)} = KeysWithRecord(ns)


\* C39: every entry that get_range yields, that get_fingerprint folds, and
\* that all and prefixes_of yield belongs to the namespace of the call,
\* whatever namespace the endpoints of the range carry.
InNamespace(entries, namespace) ==
    \A i \in 1..Len(entries) : entries[i].id[1] = namespace
C39_AllAndPrefixesIsolated ==
    /\ \A ns \in NamespaceIds : InNamespace(all(StoreState, ns), ns)
    /\ \A id \in RangeIds : InNamespace(prefixes_of(StoreState, id), id[1])
C39_RangeIsolated ==
    last_op.op = "get_range" => InNamespace(last_op.result, last_op.namespace)
C39_FingerprintIsolated ==
    last_op.op = "get_fingerprint" =>
        \A digest \in last_op.result : digest[1][1] = last_op.namespace
C39_NamespaceIsolation ==
    /\ C39_AllAndPrefixesIsolated
    /\ C39_RangeIsolated
    /\ C39_FingerprintIsolated


\* C40: whenever a Replica handle of a namespace is live, the namespace row is
\* still in the store: remove_replica beside open_replica either fails or
\* makes the open fail.
C40_NoHandleOfRemovedNamespace ==
    \A ns \in NamespaceIds : handles[ns] > 0 => ns \in namespaces_table

====
